---- MODULE Spec2Model ----
(***************************************************************************)
(* Chat orchestration engine of backend/agent (chat.py, utils.py,          *)
(* models.py, sessions.py, prompts.py).                                    *)
(*                                                                         *)
(* A text is a sequence of one-character strings, so that str.strip,       *)
(* str.upper, str.startswith, slicing and len are computed as Python       *)
(* computes them.  One inbound message is in flight at a time; the         *)
(* streaming handler runs its producer task (runnable.astream with the     *)
(* TokenStreamHandler callbacks) interleaved with its consumer             *)
(* (get_tokens).                                                           *)
(***************************************************************************)
EXTENDS Integers, Sequences, FiniteSets, TLC

\* ------------------------------------------------------------------ bounds
\* inbound messages per run
MaxDispatches == 2
\* largest token count a provider reports for one invocation is MaxTok + 1
MaxTok == 1
\* whitespace characters around a response of the wide vocabulary
MaxPad == 1
\* characters per streamed fragment
MaxFrag == 2
\* tokens a TokenUsage used on its own may hold before add is no longer called
MaxLedger == 12
\* handlers on the event loop at once
MaxTasks == 2

\* ------------------------------------------------------- program constants
\* chat.py:97 / chat.py:305   query = response[6:].strip()
QuerySliceStart == 6
\* chat.py:295   estimated_output_tokens = len(response) // 4
CharsPerToken == 4

\* -------------------------------------------------------------------- text
Whitespace == {" ", "\n"}

LowerCase == <<"a", "b", "c", "d", "e", "f", "g", "h", "i", "j", "k", "l", "m",
               "n", "o", "p", "q", "r", "s", "t", "u", "v", "w", "x", "y", "z">>

UpperCase == <<"A", "B", "C", "D", "E", "F", "G", "H", "I", "J", "K", "L", "M",
               "N", "O", "P", "Q", "R", "S", "T", "U", "V", "W", "X", "Y", "Z">>

upper_char(c) ==
    IF \E i \in 1..Len(LowerCase) : LowerCase[i] = c
    THEN UpperCase[CHOOSE i \in 1..Len(LowerCase) : LowerCase[i] = c]
    ELSE c

\* str.upper()
upper(s) == [i \in 1..Len(s) |-> upper_char(s[i])]

RECURSIVE lstrip(_)
lstrip(s) == IF s # <<>> /\ Head(s) \in Whitespace THEN lstrip(Tail(s)) ELSE s

RECURSIVE rstrip(_)
rstrip(s) ==
    IF s # <<>> /\ s[Len(s)] \in Whitespace
    THEN rstrip(SubSeq(s, 1, Len(s) - 1))
    ELSE s

\* a strip that forgets the trailing side
strip_leading_only(s) == lstrip(s)

\* str.strip()
strip(s) == rstrip(lstrip(s))

\* str.startswith(prefix)
startswith(s, prefix) ==
    /\ Len(s) >= Len(prefix)
    /\ SubSeq(s, 1, Len(prefix)) = prefix

\* s[n:]
slice_from(s, n) == IF n >= Len(s) THEN <<>> ELSE SubSeq(s, n + 1, Len(s))

\* the marker literal of chat.py:94 / chat.py:302
FETCH == <<"F", "E", "T", "C", "H">>

\* a classification that compares the case as written
is_query_mode_case_sensitive(response) == startswith(response, FETCH)

\* chat.py:94   response.upper().startswith("FETCH")
is_query_mode(response) == startswith(upper(response), FETCH)

\* chat.py:97   query = response[6:].strip()
extract_query(response) == strip(slice_from(response, QuerySliceStart))

\* ------------------------------------------------- models.py  TokenUsage
\* TokenUsage(): the dataclass holds the two counters and nothing else
TokenUsage == [input_tokens |-> 0, output_tokens |-> 0]

\* TokenUsage.total_tokens (a property computed on every read)
total_tokens(t) == t.input_tokens + t.output_tokens

\* an add that overwrites the counters instead of accumulating
add_overwrites(t, input_tokens, output_tokens) ==
    [t EXCEPT !.input_tokens = input_tokens,
              !.output_tokens = output_tokens]

\* TokenUsage.add
add(t, input_tokens, output_tokens) ==
    [t EXCEPT !.input_tokens = @ + input_tokens,
              !.output_tokens = @ + output_tokens]

\* a reset that forgets the output counter
reset_input_only(t) == [t EXCEPT !.input_tokens = 0]

\* TokenUsage.reset
reset(t) == [t EXCEPT !.input_tokens = 0, !.output_tokens = 0]

\* --------------------------------------- utils.py  mask_sensitive_data
Digits == {"0", "1", "2", "3", "4", "5", "6", "7", "8", "9"}

Letters == {LowerCase[i] : i \in 1..Len(LowerCase)}
             \cup {UpperCase[i] : i \in 1..Len(UpperCase)}

\* \w of the re module (ASCII)
WordChars == Letters \cup Digits \cup {"_"}

\* a regular expression without alternation is a sequence of items: a
\* character class with a greedy {min,max} quantifier, or the assertion \b
Cls(set, min, max) == [kind |-> "set", set |-> set, min |-> min, max |-> max]

WordBoundary == [kind |-> "wb", set |-> {}, min |-> 0, max |-> 0]

\* no match (every match ends at a position >= 1)
NoMatch == 0

is_word_at(s, i) == i >= 1 /\ i <= Len(s) /\ s[i] \in WordChars

\* \b holds before position pos
at_word_boundary(s, pos) == is_word_at(s, pos - 1) # is_word_at(s, pos)

\* number of characters of s from pos on that lie in set, at most max
RECURSIVE run_length(_, _, _, _)
run_length(s, pos, set, max) ==
    IF max = 0 \/ pos > Len(s) \/ s[pos] \notin set
    THEN 0
    ELSE 1 + run_length(s, pos + 1, set, max - 1)

\* backtracking matcher: the position after the match of items k.. of
\* pattern p at pos, trying the longest repetition first (greedy)
RECURSIVE re_items(_, _, _, _)
RECURSIVE re_try(_, _, _, _, _)
re_items(p, k, s, pos) ==
    IF k > Len(p) THEN pos
    ELSE IF p[k].kind = "wb"
    THEN IF at_word_boundary(s, pos) THEN re_items(p, k + 1, s, pos) ELSE NoMatch
    ELSE re_try(p, k, s, pos, run_length(s, pos, p[k].set, p[k].max))

re_try(p, k, s, pos, n) ==
    IF n < p[k].min THEN NoMatch
    ELSE LET r == re_items(p, k + 1, s, pos + n)
         IN  IF r # NoMatch THEN r ELSE re_try(p, k, s, pos, n - 1)

PhoneSeparators == {"-", ".", " ", "\n"}

\* \(?\d{1,4}\)?[-.\s]?\d{1,4}[-.\s]?\d{1,9}
phone_tail ==
    << Cls({"("}, 0, 1), Cls(Digits, 1, 4), Cls({")"}, 0, 1),
       Cls(PhoneSeparators, 0, 1), Cls(Digits, 1, 4),
       Cls(PhoneSeparators, 0, 1), Cls(Digits, 1, 9) >>

\* \+?\d{1,3}[-.\s()]?  (the optional leading group)
phone_prefix ==
    << Cls({"+"}, 0, 1), Cls(Digits, 1, 3),
       Cls(PhoneSeparators \cup {"(", ")"}, 0, 1) >>

\* phone_pattern at pos: the optional group is tried before it is skipped
phone_match(s, pos) ==
    LET with == re_items(phone_prefix \o phone_tail, 1, s, pos)
    IN  IF with # NoMatch THEN with ELSE re_items(phone_tail, 1, s, pos)

\* date_patterns, each tried with re.match (anchored at the start only)
date_patterns ==
    << << Cls(Digits, 4, 4), Cls({"-"}, 1, 1), Cls(Digits, 2, 2),
          Cls({"-"}, 1, 1), Cls(Digits, 2, 2) >>,
       << Cls(Digits, 2, 2), Cls({"/"}, 1, 1), Cls(Digits, 2, 2),
          Cls({"/"}, 1, 1), Cls(Digits, 4, 4) >>,
       << Cls(Digits, 4, 4), Cls({"/"}, 1, 1), Cls(Digits, 2, 2),
          Cls({"/"}, 1, 1), Cls(Digits, 2, 2) >> >>

\* the characters of s that lie in set, in order
RECURSIVE filter_chars(_, _)
filter_chars(s, set) ==
    IF s = <<>> THEN <<>>
    ELSE (IF Head(s) \in set THEN <<Head(s)>> ELSE <<>>)
             \o filter_chars(Tail(s), set)

\* replace the digits of phone, in order, by the characters of masked
RECURSIVE replace_digits(_, _)
replace_digits(phone, masked) ==
    IF phone = <<>> THEN <<>>
    ELSE IF Head(phone) \in Digits /\ masked # <<>>
    THEN <<Head(masked)>> \o replace_digits(Tail(phone), Tail(masked))
    ELSE <<Head(phone)>> \o replace_digits(Tail(phone), masked)

Stars(n) == [i \in 1..n |-> "*"]

mask_phone(phone) ==
    LET digits == filter_chars(phone, Digits)
        n == Len(digits)
        masked_digits ==
            IF n <= 10
            THEN SubSeq(digits, 1, 2) \o Stars(4) \o SubSeq(digits, n - 1, n)
            ELSE SubSeq(digits, 1, 3) \o Stars(4) \o SubSeq(digits, n - 2, n)
    IN  IF \E d \in 1..Len(date_patterns) :
               re_items(date_patterns[d], 1, phone, 1) # NoMatch
        THEN phone
        ELSE IF n >= 8 THEN replace_digits(phone, masked_digits)
        ELSE phone

\* re.sub(phone_pattern, mask_phone, text) from pos on
RECURSIVE sub_phone(_, _)
sub_phone(s, pos) ==
    IF pos > Len(s) THEN <<>>
    ELSE LET e == phone_match(s, pos)
         IN  IF e # NoMatch
             THEN mask_phone(SubSeq(s, pos, e - 1)) \o sub_phone(s, e)
             ELSE <<s[pos]>> \o sub_phone(s, pos + 1)

LocalChars == Letters \cup Digits \cup {".", "_", "+", "-"}

DomainChars == Letters \cup Digits \cup {".", "-"}

\* \b([a-zA-Z0-9._+-]+)@([a-zA-Z0-9.-]+\.[a-zA-Z]{2,})\b
email_pattern(s) ==
    << WordBoundary, Cls(LocalChars, 1, Len(s)), Cls({"@"}, 1, 1),
       Cls(DomainChars, 1, Len(s)), Cls({"."}, 1, 1),
       Cls(Letters, 2, Len(s)), WordBoundary >>

\* str.split(sep) for a one-character separator
RECURSIVE split(_, _)
split(s, sep) ==
    IF \E i \in 1..Len(s) : s[i] = sep
    THEN LET i == CHOOSE j \in 1..Len(s) :
                      s[j] = sep /\ \A h \in 1..(j - 1) : s[h] # sep
         IN  <<SubSeq(s, 1, i - 1)>> \o split(SubSeq(s, i + 1, Len(s)), sep)
    ELSE <<s>>

\* sep.join(parts)
RECURSIVE join(_, _)
join(parts, sep) ==
    IF parts = <<>> THEN <<>>
    ELSE IF Len(parts) = 1 THEN parts[1]
    ELSE parts[1] \o sep \o join(Tail(parts), sep)

\* one dot-separated part of the local part of an address
mask_part(part) ==
    LET letters_only == filter_chars(part, Letters)
        alpha == {i \in 1..Len(part) : part[i] \in Letters}
        first_letter_idx == CHOOSE i \in alpha : \A j \in alpha : i <= j
        last_letter_idx == CHOOSE i \in alpha : \A j \in alpha : i >= j
    IN  IF Len(letters_only) <= 2 THEN part
        ELSE SubSeq(part, 1, first_letter_idx)
                 \o Stars(IF Len(letters_only) <= 5 THEN 3 ELSE 4)
                 \o SubSeq(part, last_letter_idx, Len(part))

mask_email(match) ==
    LET at == CHOOSE i \in 1..Len(match) : match[i] = "@"
        local_part == SubSeq(match, 1, at - 1)
        domain == SubSeq(match, at + 1, Len(match))
        parts == split(local_part, ".")
        masked_parts == [i \in 1..Len(parts) |-> mask_part(parts[i])]
    IN  join(masked_parts, <<".">>) \o <<"@">> \o domain

\* re.sub(email_pattern, mask_email, text) from pos on
RECURSIVE sub_email(_, _)
sub_email(s, pos) ==
    IF pos > Len(s) THEN <<>>
    ELSE LET e == re_items(email_pattern(s), 1, s, pos)
         IN  IF e # NoMatch
             THEN mask_email(SubSeq(s, pos, e - 1)) \o sub_email(s, e)
             ELSE <<s[pos]>> \o sub_email(s, pos + 1)

mask_sensitive_data(text) == sub_email(sub_phone(text, 1), 1)

\* ------------------------------- utils.py  token usage of one response
\* dict.get(key, default)
dict_get(d, key, default) == IF key \in DOMAIN d THEN d[key] ELSE default

\* a dict without keys (falsy, like None)
EmptyDict == [key \in {} |-> 0]

\* the ways a provider's AIMessage carries its usage pair u = <<input,
\* output>> (u = <<>>: the provider reports no usage)
MetadataShapes ==
    {"openai", "token_usage_io", "flat", "flat_eval", "ollama", "usage_attr", "none"}

response_metadata_of(shape, u) ==
    IF u = <<>>
    THEN IF shape \in {"openai", "ollama", "usage_attr"}
         THEN [model_name |-> "m"]
         ELSE EmptyDict
    ELSE CASE shape = "openai" ->
                [model_name |-> "m",
                 token_usage |-> [prompt_tokens |-> u[1],
                                  completion_tokens |-> u[2],
                                  total_tokens |-> u[1] + u[2]]]
           [] shape = "token_usage_io" ->
                [token_usage |-> [input_tokens |-> u[1], output_tokens |-> u[2]]]
           [] shape = "flat" ->
                [prompt_tokens |-> u[1], completion_tokens |-> u[2]]
           [] shape = "flat_eval" ->
                [prompt_tokens |-> u[1], eval_count |-> u[2]]
           [] shape = "ollama" ->
                [model_name |-> "m", prompt_eval_count |-> u[1], eval_count |-> u[2]]
           [] shape = "usage_attr" -> [model_name |-> "m"]
           [] OTHER -> EmptyDict

\* the attributes getattr finds on response.usage_metadata
usage_metadata_of(shape, u) ==
    IF u # <<>> /\ shape = "usage_attr"
    THEN [input_tokens |-> u[1], output_tokens |-> u[2]]
    ELSE EmptyDict

\* the object runnable.invoke returns
AIMessage(content, shape, u) ==
    [content |-> content,
     response_metadata |-> response_metadata_of(shape, u),
     usage_metadata |-> usage_metadata_of(shape, u)]

\* utils.py  extract_token_usage (no shape above makes its try block raise)
extract_token_usage(response) ==
    LET metadata == response.response_metadata
        from_metadata ==
            IF DOMAIN metadata = {} THEN <<0, 0>>
            ELSE IF "token_usage" \in DOMAIN metadata
            THEN LET token_usage == metadata["token_usage"]
                 IN  << dict_get(token_usage, "prompt_tokens",
                                 dict_get(token_usage, "input_tokens", 0)),
                        dict_get(token_usage, "completion_tokens",
                                 dict_get(token_usage, "output_tokens", 0)) >>
            ELSE IF "prompt_tokens" \in DOMAIN metadata
            THEN << dict_get(metadata, "prompt_tokens", 0),
                    dict_get(metadata, "completion_tokens",
                             dict_get(metadata, "eval_count", 0)) >>
            ELSE IF "eval_count" \in DOMAIN metadata
            THEN << dict_get(metadata, "prompt_eval_count", 0),
                    dict_get(metadata, "eval_count", 0) >>
            ELSE <<0, 0>>
        usage == response.usage_metadata
    IN  IF DOMAIN usage = {} THEN from_metadata
        ELSE << dict_get(usage, "input_tokens", from_metadata[1]),
                dict_get(usage, "output_tokens", from_metadata[2]) >>

\* Python's None where a count is expected; the counts a provider reports
\* are never negative
None == -1

\* usage metadata whose counts are null: {"input_tokens": None, ...}
MalformedUsages == {<<None, None>>, <<1, None>>}

\* the AIMessage that carries such metadata
MalformedMessage(content, u) ==
    [content |-> content,
     response_metadata |->
         [token_usage |-> [input_tokens |-> u[1], output_tokens |-> u[2]]],
     usage_metadata |-> EmptyDict]

\* models.py:26-29: "+=" of an int and None raises TypeError; the first
\* statement of add has taken effect when the second one raises
add_until_raise(t, input_tokens, output_tokens) ==
    IF input_tokens = None THEN t
    ELSE [t EXCEPT !.input_tokens = @ + input_tokens]

\* a tracker that hands back the session's running totals
track_returns_session_totals(response, token_usage) ==
    LET t == extract_token_usage(response)
        updated == add(token_usage, t[1], t[2])
    IN  [input_tokens |-> updated.input_tokens,
         output_tokens |-> updated.output_tokens,
         token_usage |-> updated]

\* utils.py  track_and_log_token_usage: the pair of this invocation and the
\* session's TokenUsage after token_usage.add
track_and_log_token_usage(response, token_usage) ==
    LET t == extract_token_usage(response)
    IN  [input_tokens |-> t[1], output_tokens |-> t[2],
         token_usage |-> add(token_usage, t[1], t[2])]

\* ---------------------------------------------------- utils.py  fetch
ErrorFetchingData ==
    <<"E", "r", "r", "o", "r", " ", "f", "e", "t", "c", "h", "i", "n", "g", " ",
      "d", "a", "t", "a", ":", " ">>

\* utils.py  fetch_people: the body of the reply, or the error as a text
fetch_people(query, outcome) ==
    IF outcome.ok THEN outcome.text ELSE ErrorFetchingData \o outcome.text

\* ------------------------------------------- prompts.py  format_follow_up
FollowUpHead ==
    <<"H", "e", "r", "e", " ", "a", "r", "e", " ", "t", "h", "e", " ", "s", "e",
      "a", "r", "c", "h", " ", "r", "e", "s", "u", "l", "t", "s", " ", "f", "o",
      "r", " ", "'">>

FollowUpMid == <<"'", ":", " ">>

FollowUpTail ==
    <<"\n", "P", "l", "e", "a", "s", "e", " ", "s", "u", "m", "m", "a", "r", "i",
      "s", "e", " ", "t", "h", "e", " ", "k", "e", "y", " ", "o", "p", "p", "o",
      "r", "t", "u", "n", "i", "t", "i", "e", "s", " ", "f", "o", "r", " ", "t",
      "h", "e", " ", "a", "g", "e", "n", "t", ".">>

format_follow_up(query, processed_data) ==
    FollowUpHead \o query \o FollowUpMid \o processed_data \o FollowUpTail

\* ------------------------------------ ai_agent_gpt.py  process_fetch_data
NoResultsFound ==
    <<"N", "o", " ", "r", "e", "s", "u", "l", "t", "s", " ", "f", "o", "u", "n",
      "d", " ", "f", "o", "r", " ", "y", "o", "u", "r", " ", "q", "u", "e", "r",
      "y", ".">>

\* ai_agent_gpt.py:91-105: json.loads(data) fails or gives nothing.  The
\* body of a successful reply is a JSON array or object; any other text
\* here is the error text of fetch_people, which json.loads rejects
data_items_empty(data) ==
    LET text == strip(data)
    IN  \/ text = <<>>
        \/ Head(text) \notin {"[", "{"}
        \/ strip(SubSeq(text, 2, Len(text) - 1)) = <<>>

\* ai_agent_gpt.py  process_fetch_data with Config.USE_EMBEDDINGS off, its
\* default (config.py:284)
gpt_process_fetch_data(data, query) ==
    IF data_items_empty(data) THEN NoResultsFound ELSE mask_sensitive_data(data)

\* a choice of processor that passes the data on as it came
result_processor_skipped(f, data, query) == data

\* chat.py:103-107 / chat.py:311-315: process_fetch_data if supplied,
\* otherwise mask_sensitive_data
result_processor(f, data, query) ==
    IF f = "gpt" THEN gpt_process_fetch_data(data, query)
    ELSE mask_sensitive_data(data)

\* ------------------------------------------- chat.py  streaming usage
\* the ways an LLMResult's llm_output carries the usage pair
LlmOutputCarrying == {"openai", "token_usage_io"}

MetadataCarrying ==
    {"openai", "token_usage_io", "flat", "flat_eval", "ollama", "usage_attr"}

\* shapes that carry no usage: no metadata at all, or metadata without it
MetadataSilent == {"none", "bare"}

\* the object on_llm_end receives
LLMResult(shape, u) ==
    [llm_output |->
        IF u = <<>>
        THEN IF shape = "bare" THEN [model_name |-> "m"] ELSE EmptyDict
        ELSE IF shape = "openai"
        THEN [model_name |-> "m",
              token_usage |-> [prompt_tokens |-> u[1],
                               completion_tokens |-> u[2],
                               total_tokens |-> u[1] + u[2]]]
        ELSE [token_usage |-> [input_tokens |-> u[1], output_tokens |-> u[2]]]]

\* chat.py:295   len(response) // 4
estimate_tokens(response) == Len(response) \div CharsPerToken

\* chat.py:283-300 (and 363-378): the usage of one streamed invocation.
\* final_response is <<>> (None) or <<the LLMResult>>
stream_token_usage(final_response, response) ==
    LET llm_output == final_response[1].llm_output
    IN  IF final_response # <<>>
           /\ DOMAIN llm_output # {}
           /\ "token_usage" \in DOMAIN llm_output
        THEN LET token_info == llm_output["token_usage"]
             IN  [exact |-> TRUE,
                  input_tokens |-> dict_get(token_info, "prompt_tokens",
                                       dict_get(token_info, "input_tokens", 0)),
                  output_tokens |-> dict_get(token_info, "completion_tokens",
                                        dict_get(token_info, "output_tokens", 0))]
        ELSE [exact |-> FALSE,
              input_tokens |-> 0,
              output_tokens |-> estimate_tokens(response)]

\* a handler that clears the ledger when it has to estimate
stream_ledger_resets(token_usage, usage) ==
    IF usage.exact
    THEN add(token_usage, usage.input_tokens, usage.output_tokens)
    ELSE reset(token_usage)

\* chat.py:289 / chat.py:369: only provider-reported usage reaches the ledger
stream_ledger(token_usage, usage) ==
    IF usage.exact
    THEN add(token_usage, usage.input_tokens, usage.output_tokens)
    ELSE token_usage

\* ---------------------------------------------------------- environment
\* what the collaborators (model, provider metadata, fetch endpoint, caller)
\* may supply; every handler draws its inputs from one such record
Okay == <<" ", "O", "k", "a", "y", " ">>

FetchB == <<"F", "E", "T", "C", "H", ":", " ", "B">>

DoneText == <<"D", "o", "n", "e", ".">>

FetchC == <<"f", "e", "t", "c", "h", ":", " ", "C">>

Question1 == <<"Q", "?">>

EmptyList == <<"[", "]">>

Timeout == <<"t", "i", "m", "e", "o", "u", "t">>

\* an error of the endpoint that names the query it refused
Refused == <<"q", "=", "0", "4", "1", "2", "3", "4", "5", "6", "7", "8">>

OneRecord ==
    <<"[", "{", "\"", "e", "\"", ":", "\"", "j", "o", ".", "d", "o", "e", "@",
      "x", ".", "i", "o", "\"", ",", "\"", "p", "\"", ":", "\"", "0", "4", "1",
      "2", "3", "4", "5", "6", "7", "8", "\"", "}", "]">>

Profile1 ==
    [agent_id |-> "a1", agent_name |-> "Jane", location |-> "Bondi",
     listings |-> <<"1 Main St">>]

\* the same agent after its profile was refreshed upstream
Profile2 ==
    [agent_id |-> "a1", agent_name |-> "Janet", location |-> "Manly",
     listings |-> <<"2 High St", "3 Low Rd">>]

\* leading and trailing whitespace of a response
Pads == {[i \in 1..n |-> " "] : n \in 0..MaxPad} \cup {<<"\n">>}

MarkerSpellings ==
    {FETCH, <<"f", "e", "t", "c", "h">>, <<"F", "e", "t", "c", "h">>}

Separators == {<<>>, <<":">>, <<" ">>, <<":", " ">>}

Payloads == {<<>>, <<"B", "o">>}

PlainBodies ==
    {<<>>, <<"O", "k", "a", "y">>, <<"F", "E", "T", "C">>,
     <<"A", " ", "F", "E", "T", "C", "H">>}

WideTexts ==
    {a \o m \o sep \o q \o b :
        a \in Pads, m \in MarkerSpellings, sep \in Separators,
        q \in Payloads, b \in Pads}
    \cup {a \o t \o b : a \in Pads, t \in PlainBodies, b \in Pads}

Usages == {<<i, i + 1>> : i \in 1..MaxTok}

\* one message whose caller may stop consuming
CancelWorld ==
    [texts1 |-> {Okay, FetchB},
     texts2 |-> {DoneText},
     usages |-> Usages,
     fetches |-> {[ok |-> TRUE, text |-> EmptyList]},
     kinds |-> {"invoke", "stream"},
     sessions |-> {"s1"},
     profiles |-> {Profile1},
     questions |-> {Question1},
     processors |-> {"none"},
     lookups |-> {"direct"},
     chunks |-> {MaxFrag},
     max_dispatches |-> 1]

\* messages that arrive through the /chat and /chat/stream endpoints, for
\* two agent ids, with every outcome of the profile service
EndpointWorld ==
    [texts1 |-> {Okay, FetchB},
     texts2 |-> {DoneText},
     usages |-> {<<1, 2>>},
     fetches |-> {[ok |-> TRUE, text |-> EmptyList]},
     kinds |-> {"invoke", "stream"},
     sessions |-> {"s1", "s2"},
     profiles |-> {Profile1, Profile2},
     questions |-> {Question1},
     processors |-> {"none"},
     lookups |-> {"found", "not_found", "error"},
     chunks |-> {MaxFrag + 2},
     max_dispatches |-> MaxDispatches]

\* messages of one session whose collaborators may misbehave
FaultWorld ==
    [texts1 |-> {Okay, FetchB},
     texts2 |-> {DoneText},
     usages |-> {<<1, 2>>},
     fetches |-> {[ok |-> TRUE, text |-> EmptyList]},
     kinds |-> {"invoke", "stream"},
     sessions |-> {"s1"},
     profiles |-> {Profile1},
     questions |-> {Question1},
     processors |-> {"none"},
     lookups |-> {"direct"},
     chunks |-> {MaxFrag + 2},
     max_dispatches |-> MaxDispatches]

\* several messages of one session, short responses
SessionWorld ==
    [texts1 |-> {Okay, FetchB},
     texts2 |-> {DoneText, FetchC},
     usages |-> Usages,
     fetches |-> {[ok |-> TRUE, text |-> OneRecord], [ok |-> FALSE, text |-> Timeout]},
     kinds |-> {"invoke", "stream"},
     sessions |-> {"s1"},
     profiles |-> {Profile1},
     questions |-> {Question1},
     processors |-> {"none"},
     lookups |-> {"direct"},
     chunks |-> {MaxFrag},
     max_dispatches |-> MaxDispatches]

\* one message, first responses of every spelling, fragments of one size
TextWorld ==
    [texts1 |-> WideTexts,
     texts2 |-> {DoneText, FetchC},
     usages |-> Usages,
     fetches |-> {[ok |-> TRUE, text |-> EmptyList], [ok |-> FALSE, text |-> Timeout]},
     kinds |-> {"invoke", "stream"},
     sessions |-> {"s1"},
     profiles |-> {Profile1},
     questions |-> {Question1},
     processors |-> {"none"},
     lookups |-> {"direct"},
     chunks |-> {MaxFrag + 2},
     max_dispatches |-> 1]

\* messages of two sessions whose profile may change between messages
ProfileWorld ==
    [texts1 |-> {Okay, FetchB},
     texts2 |-> {DoneText},
     usages |-> {<<1, 2>>},
     fetches |-> {[ok |-> TRUE, text |-> EmptyList]},
     kinds |-> {"invoke", "stream"},
     sessions |-> {"s1", "s2"},
     profiles |-> {Profile1, Profile2},
     questions |-> {Question1},
     processors |-> {"none"},
     lookups |-> {"direct"},
     chunks |-> {MaxFrag + 2},
     max_dispatches |-> MaxDispatches]

\* one query-mode message, every fetch outcome, both result processors
FetchWorld ==
    [texts1 |-> {Okay, FetchB},
     texts2 |-> {DoneText},
     usages |-> Usages,
     fetches |-> {[ok |-> TRUE, text |-> OneRecord], [ok |-> TRUE, text |-> EmptyList],
                  [ok |-> FALSE, text |-> Timeout], [ok |-> FALSE, text |-> Refused]},
     kinds |-> {"invoke", "stream"},
     sessions |-> {"s1"},
     profiles |-> {Profile1},
     questions |-> {Question1},
     processors |-> {"none", "gpt"},
     lookups |-> {"direct"},
     chunks |-> {MaxFrag},
     max_dispatches |-> 1]

\* provider reports of one invocation: <<shape, usage pair or <<>> >>
reports(carrying, usages) ==
    {<<shape, u>> : shape \in carrying, u \in usages}
        \cup {<<shape, <<>> >> : shape \in MetadataSilent}

\* ------------------------------------------------------------------ state
VARIABLES
    agent_sessions,         \* sessions.py: session_id -> the session
    create_llm_calls,       \* how often the model factory has been called
    dispatches,             \* inbound messages received so far
    pc,                     \* where the handler of the message in flight is
    kind,                   \* "invoke": process_chat_message, "stream": ..._stream
    session_id, profile, question,          \* its arguments
    response, query, data, processed_data, follow_up,        \* its locals
    request_input_tokens, request_output_tokens,
    callback_handler,       \* the TokenStreamHandler in use
    accumulated_response,
    stream_task,            \* the task running runnable.astream
    llm_pending,            \* text the model has still to emit
    llm_chunk,              \* size of the fragments of this invocation
    yielded,                \* elements the stream handler has yielded
    result,                 \* what process_chat_message returned
    calls,                  \* history: model invocations of this message
    fetch_queries,          \* history: queries passed to fetch_people
    events,                 \* history: protocol events of this message
    provider_usage,         \* history: usage reported per session, summed
    ledger_at_start,        \* history: the ledger when the message arrived
    session_at_start,       \* history: <<the session the message found>>, or
                            \* <<>> when it found none
    process_fetch_data,     \* argument: "gpt" for the processor of
                            \* ai_agent_gpt.py, "none" for None
    profile_lookup,         \* history: <<what the profile service did>>, or
                            \* <<>> when it was not asked
    fetch_outcome,          \* history: <<what the fetch endpoint did>>
    emitted,                \* history: per streamed invocation, the tokens
                            \* passed to on_llm_new_token, in order
    owned_usage,            \* a TokenUsage in the hands of its owner
    owned_added,            \* history: tokens added to it since its last
                            \* reset, and whether it has been reset
    tasks,                  \* the handlers running on the event loop at once
    running                 \* the task the event loop is running, or NoTask

sessVars == <<agent_sessions, create_llm_calls, provider_usage>>

argVars == <<kind, session_id, profile, question, ledger_at_start,
             session_at_start, process_fetch_data, profile_lookup>>

historyVars == <<fetch_outcome, emitted>>

fetchVars == <<query, data, processed_data, follow_up>>

tokenVars == <<request_input_tokens, request_output_tokens>>

streamVars ==
    <<callback_handler, accumulated_response, stream_task, llm_pending, llm_chunk>>

vars ==
    <<agent_sessions, create_llm_calls, dispatches, pc, kind, session_id,
      profile, question, response, query, data, processed_data, follow_up,
      request_input_tokens, request_output_tokens, callback_handler,
      accumulated_response, stream_task, llm_pending, llm_chunk, yielded,
      result, calls, fetch_queries, events, provider_usage, ledger_at_start,
      session_at_start, process_fetch_data, profile_lookup, fetch_outcome,
      emitted,
      owned_usage, owned_added, tasks, running>>

ownedVars == <<owned_usage, owned_added>>

loopVars == <<tasks, running>>

\* TokenStreamHandler.__init__
TokenStreamHandler == [token_queue |-> <<>>, done |-> FALSE, final_response |-> <<>>]

\* chat.py:60 / chat.py:228: ", ".join(profile.listings), or "" without
\* listings; the text is kept as its pieces
RECURSIVE join_listings(_)
join_listings(listings) ==
    IF listings = <<>> THEN <<>>
    ELSE IF Len(listings) = 1 THEN listings
    ELSE <<Head(listings), ", ">> \o join_listings(Tail(listings))

\* chat.py:57-62 and 115-120 (227-232, 319-324): the inputs of an invocation
\* are built from the profile argument of the message
invoke_inputs(p, q) ==
    [agent_name |-> p.agent_name,
     location |-> p.location,
     listings |-> join_listings(p.listings),
     question |-> q]

\* the inputs of the invocation about to be made: the question first, the
\* follow-up second
current_inputs ==
    invoke_inputs(profile, IF calls = <<>> THEN question ELSE follow_up)

\* a runnable that is given an empty history for every invocation
load_context_fresh(history) == <<>>

\* agent.py:186-191: the runnable reads the session's own history
\* (lambda session_id: history) and replays it as chat_history
load_context(history) == history

\* a memory that keeps the latest exchange only
with_turns_latest_only(history, input, content) ==
    << [role |-> "human", content |-> input],
       [role |-> "ai", content |-> content] >>

\* agent.py:181-191: history = ChatMessageHistory(), kept by
\* RunnableWithMessageHistory: a completed invocation appends the question
\* and the reply
with_turns(history, input, content) ==
    history \o << [role |-> "human", content |-> input],
                  [role |-> "ai", content |-> content] >>

\* chat.py:19-142  process_chat_message as a function of what its
\* collaborators answer: the model's response texts and reported usage (a
\* pair, or <<>> when none is reported) per invocation and the outcome of
\* the fetch. The outcome is what the handler asked and what it left.
process_chat_message(session, p, q, contents, usages, outcomes, f) ==
    LET message(i) ==
            AIMessage(contents[i], IF usages[i] = <<>> THEN "none" ELSE "openai",
                      usages[i])
        response1 == strip(message(1).content)
        history1 == with_turns(session.history, q, contents[1])
        tracked1 == track_and_log_token_usage(message(1), session.token_usage)
    IN  IF is_query_mode(response1) /\ Len(contents) > 1 /\ outcomes # <<>>
        THEN LET fetch_query == extract_query(response1)
                 fetched == fetch_people(fetch_query, outcomes[1])
                 processed == result_processor(f, fetched, fetch_query)
                 follow == format_follow_up(fetch_query, processed)
                 tracked2 == track_and_log_token_usage(message(2),
                                                       tracked1.token_usage)
             IN  [inputs |-> <<invoke_inputs(p, q), invoke_inputs(p, follow)>>,
                  contexts |-> <<load_context(session.history),
                                 load_context(history1)>>,
                  queries |-> <<fetch_query>>,
                  history |-> with_turns(history1, follow, contents[2]),
                  token_usage |-> tracked2.token_usage,
                  response |-> strip(message(2).content)]
        ELSE [inputs |-> <<invoke_inputs(p, q)>>,
              contexts |-> <<load_context(session.history)>>,
              queries |-> IF is_query_mode(response1) THEN <<"unanswered">>
                          ELSE <<>>,
              history |-> history1,
              token_usage |-> tracked1.token_usage,
              response |-> response1]

\* agent.py:251-256 / 343-348: the profile used when the lookup fails
fallback_profile(agent_id) ==
    [agent_id |-> agent_id, agent_name |-> agent_id, location |-> "",
     listings |-> <<>>]

\* an endpoint that asks the profile service for every message
endpoint_profile_always_asks(sessions, agent_id, lookup, found) ==
    IF lookup = "direct" THEN found
    ELSE IF lookup = "found" THEN [found EXCEPT !.agent_id = agent_id]
    ELSE fallback_profile(agent_id)

\* an endpoint that lets the failure of the lookup through
endpoint_profile_without_fallback(sessions, agent_id, lookup, found) ==
    IF lookup = "direct" THEN found
    ELSE IF agent_id \in DOMAIN sessions THEN sessions[agent_id].profile
    ELSE [found EXCEPT !.agent_id = agent_id]

\* agent.py:237-263 / 329-355: the profile the endpoint passes to the
\* handler: the stored one for a known session, else what the profile
\* service returns, else the fallback. "direct" is a call of the handler
\* with a profile of the caller's choice.
endpoint_profile(sessions, agent_id, lookup, found) ==
    IF lookup = "direct" THEN found
    ELSE IF agent_id \in DOMAIN sessions THEN sessions[agent_id].profile
    ELSE IF lookup = "found" THEN [found EXCEPT !.agent_id = agent_id]
    ELSE fallback_profile(agent_id)

\* agent.py:239 / 331: the profile service is asked for unknown sessions only
lookup_made(sessions, agent_id, lookup) ==
    IF lookup = "direct" \/ agent_id \in DOMAIN sessions THEN <<>> ELSE <<lookup>>

\* a store with room for one session, the latest
get_or_create_evicts(sessions, sid, p, n) ==
    IF sid \notin DOMAIN sessions
    THEN (sid :> [runnable |-> n + 1, history |-> <<>>,
                  profile |-> p, token_usage |-> TokenUsage])
    ELSE [sessions EXCEPT ![sid] = [@ EXCEPT !.profile = p]]

\* a store that writes the profile of a message to every session
get_or_create_profile_for_all(sessions, sid, p, n) ==
    LET all == [s \in DOMAIN sessions |-> [sessions[s] EXCEPT !.profile = p]]
    IN  IF sid \notin DOMAIN sessions
        THEN all @@ (sid :> [runnable |-> n + 1, history |-> <<>>,
                             profile |-> p, token_usage |-> TokenUsage])
        ELSE all

\* a store that builds the session again when the profile has changed
get_or_create_rebuilds(sessions, sid, p, n) ==
    IF sid \notin DOMAIN sessions \/ sessions[sid].profile # p
    THEN (sid :> [runnable |-> n + 1, history |-> <<>>,
                  profile |-> p, token_usage |-> TokenUsage]) @@ sessions
    ELSE sessions

\* a store that leaves the profile of an existing session as it was
get_or_create_keeps_profile(sessions, sid, p, n) ==
    IF sid \notin DOMAIN sessions
    THEN sessions @@ (sid :> [runnable |-> n + 1, history |-> <<>>,
                              profile |-> p, token_usage |-> TokenUsage])
    ELSE sessions

\* chat.py:42-56 (and 209-223): get or create the session, store the profile
get_or_create(sessions, sid, p, n) ==
    IF sid \notin DOMAIN sessions
    THEN sessions @@ (sid :> [runnable |-> n + 1, history |-> <<>>,
                              profile |-> p, token_usage |-> TokenUsage])
    ELSE [sessions EXCEPT ![sid] = [@ EXCEPT !.profile = p]]

\* a handler that stores the session before the model factory has answered
create_agent_raises_stores(sessions, sid, p, n) ==
    sessions @@ (sid :> [runnable |-> n + 1, history |-> <<>>,
                         profile |-> p, token_usage |-> TokenUsage])

\* chat.py:43-51 (and 211-218) when create_llm raises (agent.py:164): the
\* exception leaves create_agent and the handler before the assignment to
\* agent_sessions[session_id], so the table is what it was
create_agent_raises(sessions, sid, p, n) == sessions

\* a handler that goes straight to the second invocation
after_first_skips_fetch(text) == IF is_query_mode(text) THEN "invoke2" ELSE "done"

\* chat.py:94 / chat.py:302: where the handler goes after the first response
after_first_response(text) == IF is_query_mode(text) THEN "fetch" ELSE "done"

\* a handler that classifies the second response as it does the first
after_second_reclassifies(text) == IF is_query_mode(text) THEN "fetch" ELSE "done"

\* chat.py:134-142 / chat.py:360-383: the second response is final
after_second_response(text) == "done"

\* a handler that asks the first question again once the data is ready
after_processing_retries(k) == IF k = "invoke" THEN "invoke1" ELSE "stream1"

\* chat.py:113 / chat.py:349: after the follow-up is built the handler makes
\* its second invocation
after_processing(k) == IF k = "invoke" THEN "invoke2" ELSE "stream2"

\* a fetch whose failure reaches the handler
after_fetch_propagates(outcome) == IF outcome.ok THEN "process" ELSE "failed"

\* utils.py:20-27: fetch_people catches every exception, so the handler
\* goes on to the result processor whatever the endpoint did
after_fetch(outcome) == "process"

\* a handler that makes the failed invocation again
after_failure_retries(at) == at

\* chat.py:72-84, 113-131 (and 269-275, 352-356): nothing catches the
\* failure of an invocation, so the handler ends where it stands
after_failure(at) == "failed"

\* a consumer that leaves its loop as soon as the handler's done flag is
\* set, whatever is still queued
next_item_by_flag(handler) ==
    IF handler.done /\ Head(handler.token_queue)[1] = "token"
    THEN <<"done", <<>> >>
    ELSE Head(handler.token_queue)

\* chat.py:176: get_tokens takes the oldest item of the queue and looks at
\* nothing else
next_item(handler) == Head(handler.token_queue)

\* a handler whose last element carries no counts
final_element_without_totals(input_tokens, output_tokens) == << <<>>, 0, 0 >>

\* chat.py:383: yield ("", request_input_tokens, request_output_tokens)
final_element(input_tokens, output_tokens) ==
    << <<>>, input_tokens, output_tokens >>

\* a queue that hands out its newest item first
put_in_front(token_queue, item) == <<item>> \o token_queue

\* chat.py:157-170: asyncio.Queue.put; the queue is unbounded and first in,
\* first out
put(token_queue, item) == Append(token_queue, item)

\* a handler that goes on draining the queue after its caller has gone
after_close_goes_on(at) == at

\* chat.py:269-272 / chat.py:352-354: the fragment loops are in no try
\* block, so closing the generator (GeneratorExit, or CancelledError in
\* the await of get_tokens) ends the handler where it stands
after_close(at) == "cancelled"

\* chat.py:266 / chat.py:349: the task is referenced by the local
\* stream_task only and nothing cancels it; once the handler is gone the
\* task goes on, unless the collector takes it mid-flight
TaskFates == {"goes on", "collected"}

plus(a, b) == <<a[1] + b[1], a[2] + b[2]>>

usage_or_zero(u) == IF u = <<>> THEN <<0, 0>> ELSE u

\* agent.py:227 / agent.py:311: every request is a coroutine of one event loop
Tasks == 1..MaxTasks

\* the event loop is between tasks
NoTask == 0

\* a request that has not started
NewTask == [pc |-> "new", kind |-> "invoke", sid |-> "", found |-> FALSE, runnable |-> 0]

Init ==
    /\ agent_sessions = EmptyDict
    /\ create_llm_calls = 0
    /\ provider_usage = EmptyDict
    /\ dispatches = 0
    /\ pc = "idle"
    /\ kind = "invoke"
    /\ session_id = ""
    /\ profile = Profile1
    /\ question = <<>>
    /\ ledger_at_start = TokenUsage
    /\ session_at_start = <<>>
    /\ process_fetch_data = "none"
    /\ profile_lookup = <<>>
    /\ fetch_outcome = <<>>
    /\ emitted = <<>>
    /\ response = <<>>
    /\ query = <<>>
    /\ data = <<>>
    /\ processed_data = <<>>
    /\ follow_up = <<>>
    /\ request_input_tokens = 0
    /\ request_output_tokens = 0
    /\ callback_handler = TokenStreamHandler
    /\ accumulated_response = <<>>
    /\ stream_task = "none"
    /\ llm_pending = <<>>
    /\ llm_chunk = 1
    /\ yielded = <<>>
    /\ result = <<>>
    /\ calls = <<>>
    /\ fetch_queries = <<>>
    /\ events = <<>>
    /\ owned_usage = TokenUsage
    /\ owned_added = [tokens |-> 0, after_reset |-> FALSE]
    /\ tasks = [t \in Tasks |-> NewTask]
    /\ running = NoTask

\* a message arrives: chat.py:41-68 (process_chat_message) or chat.py:208-266
\* (process_chat_message_stream, up to asyncio.create_task)
NewMessage(W) ==
    /\ pc \in {"idle", "done", "failed"}
    /\ dispatches < W.max_dispatches
    /\ \E f \in W.processors : process_fetch_data' = f
    /\ fetch_outcome' = <<>>
    /\ emitted' = <<>>
    /\ \E k \in W.kinds, sid \in W.sessions, found \in W.profiles,
          lookup \in W.lookups, q \in W.questions :
       LET p == endpoint_profile(agent_sessions, sid, lookup, found)
       IN
        /\ profile_lookup' = lookup_made(agent_sessions, sid, lookup)
        /\ agent_sessions' = get_or_create(agent_sessions, sid, p, create_llm_calls)
        /\ create_llm_calls' =
               IF sid \in DOMAIN agent_sessions
               THEN create_llm_calls ELSE create_llm_calls + 1
        /\ provider_usage' =
               IF sid \in DOMAIN agent_sessions
               THEN provider_usage ELSE provider_usage @@ (sid :> <<0, 0>>)
        /\ ledger_at_start' = agent_sessions'[sid].token_usage
        /\ session_at_start' =
               IF sid \in DOMAIN agent_sessions
               THEN <<agent_sessions[sid]>> ELSE <<>>
        /\ kind' = k
        /\ session_id' = sid
        /\ profile' = p
        /\ question' = q
        /\ pc' = IF k = "invoke" THEN "invoke1" ELSE "stream1"
        /\ stream_task' = IF k = "invoke" THEN "none" ELSE "created"
    /\ dispatches' = dispatches + 1
    /\ response' = <<>>
    /\ query' = <<>>
    /\ data' = <<>>
    /\ processed_data' = <<>>
    /\ follow_up' = <<>>
    /\ request_input_tokens' = 0
    /\ request_output_tokens' = 0
    /\ callback_handler' = TokenStreamHandler
    /\ accumulated_response' = <<>>
    /\ llm_pending' = <<>>
    /\ llm_chunk' = 1
    /\ yielded' = <<>>
    /\ result' = <<>>
    /\ calls' = <<>>
    /\ fetch_queries' = <<>>
    /\ events' = <<>>
    /\ UNCHANGED <<ownedVars, loopVars>>

\* chat.py:72-97 and 142: the first invoke returns, its usage is tracked, the
\* response is classified; without the marker the handler returns
FirstInvoke(W) ==
    /\ pc = "invoke1"
    /\ \E content \in W.texts1, r \in reports(MetadataCarrying, W.usages) :
        LET response_obj == AIMessage(content, r[1], r[2])
            text == strip(response_obj.content)
            session == agent_sessions[session_id]
            tracked == track_and_log_token_usage(response_obj, session.token_usage)
            next == after_first_response(text)
        IN  /\ agent_sessions' =
                   [agent_sessions EXCEPT ![session_id] =
                       [@ EXCEPT !.history = with_turns(@, question, content),
                                 !.token_usage = tracked.token_usage]]
            /\ response' = text
            /\ request_input_tokens' = request_input_tokens + tracked.input_tokens
            /\ request_output_tokens' = request_output_tokens + tracked.output_tokens
            /\ calls' = Append(calls, [content |-> content, usage |-> r[2],
                                       status |-> "ok",
                                   inputs |-> current_inputs,
                                   runnable |-> agent_sessions[session_id].runnable,
                                   context |-> load_context(agent_sessions[session_id].history)])
            /\ provider_usage' =
                   [provider_usage EXCEPT
                       ![session_id] = plus(@, usage_or_zero(r[2]))]
            /\ pc' = next
            /\ IF next = "fetch"
               THEN /\ query' = extract_query(text)
                    /\ result' = result
                    /\ events' = events \o <<"invoke1_start", "invoke1_end">>
               ELSE /\ query' = query
                    /\ result' = <<text, request_input_tokens', request_output_tokens'>>
                    /\ events' = events \o <<"invoke1_start", "invoke1_end", "return">>
    /\ UNCHANGED <<create_llm_calls, dispatches, argVars, data, processed_data,
                   follow_up, streamVars, yielded, fetch_queries>>
    /\ UNCHANGED <<ownedVars, loopVars, historyVars>>

\* runnable.invoke raises (chat.py:72 or chat.py:113): nothing catches it
InvokeRaises ==
    /\ pc \in {"invoke1", "invoke2"}
    /\ calls' = Append(calls, [content |-> <<>>, usage |-> <<>>, status |-> "error",
                                   inputs |-> current_inputs,
                                   runnable |-> agent_sessions[session_id].runnable,
                                   context |-> load_context(agent_sessions[session_id].history)])
    /\ events' = events \o
           (IF pc = "invoke1" THEN <<"invoke1_start", "raise">>
                              ELSE <<"invoke2_start", "raise">>)
    /\ pc' = after_failure(pc)
    /\ UNCHANGED <<sessVars, dispatches, argVars, response, fetchVars, tokenVars,
                   streamVars, yielded, result, fetch_queries>>
    /\ UNCHANGED <<ownedVars, loopVars, historyVars>>

\* runnable.invoke returns a message whose usage counts are null:
\* extract_token_usage hands them on (utils.py:145-147, no exception in
\* its try block) and token_usage.add raises (utils.py:190), which nothing
\* catches
TrackRaises(W) ==
    /\ pc \in {"invoke1", "invoke2"}
    /\ \E content \in (IF pc = "invoke1" THEN W.texts1 ELSE W.texts2),
          u \in MalformedUsages :
        LET t == extract_token_usage(MalformedMessage(content, u))
        IN  /\ None \in {t[1], t[2]}
            /\ agent_sessions' =
                   [agent_sessions EXCEPT ![session_id] =
                       [@ EXCEPT !.history =
                                     with_turns(@, current_inputs.question, content),
                                 !.token_usage = add_until_raise(@, t[1], t[2])]]
            /\ calls' = Append(calls, [content |-> content, usage |-> <<>>,
                                       status |-> "ok",
                                       inputs |-> current_inputs,
                                       runnable |-> agent_sessions[session_id].runnable,
                                       context |-> load_context(agent_sessions[session_id].history)])
    /\ events' = events \o
           (IF pc = "invoke1" THEN <<"invoke1_start", "raise">>
                              ELSE <<"invoke2_start", "raise">>)
    /\ pc' = after_failure(pc)
    /\ UNCHANGED <<create_llm_calls, provider_usage, dispatches, argVars,
                   response, fetchVars, tokenVars, streamVars, yielded, result,
                   fetch_queries>>
    /\ UNCHANGED <<ownedVars, loopVars, historyVars>>

\* a message arrives for an unknown session and create_llm raises
\* (chat.py:43-48 / 211-216, agent.py:164): nothing catches it in the
\* handler, which has made no invocation
CreateRaises(W) ==
    /\ pc \in {"idle", "done", "failed"}
    /\ dispatches < W.max_dispatches
    /\ \E f \in W.processors : process_fetch_data' = f
    /\ \E k \in W.kinds, sid \in W.sessions, found \in W.profiles,
          lookup \in W.lookups, q \in W.questions :
       LET p == endpoint_profile(agent_sessions, sid, lookup, found)
       IN
        /\ sid \notin DOMAIN agent_sessions
        /\ profile_lookup' = lookup_made(agent_sessions, sid, lookup)
        /\ agent_sessions' = create_agent_raises(agent_sessions, sid, p, create_llm_calls)
        /\ kind' = k
        /\ session_id' = sid
        /\ profile' = p
        /\ question' = q
    /\ create_llm_calls' = create_llm_calls + 1
    /\ ledger_at_start' = TokenUsage
    /\ session_at_start' = <<>>
    /\ pc' = "failed"
    /\ stream_task' = "none"
    /\ dispatches' = dispatches + 1
    /\ fetch_outcome' = <<>>
    /\ emitted' = <<>>
    /\ response' = <<>>
    /\ query' = <<>>
    /\ data' = <<>>
    /\ processed_data' = <<>>
    /\ follow_up' = <<>>
    /\ request_input_tokens' = 0
    /\ request_output_tokens' = 0
    /\ callback_handler' = TokenStreamHandler
    /\ accumulated_response' = <<>>
    /\ llm_pending' = <<>>
    /\ llm_chunk' = 1
    /\ yielded' = <<>>
    /\ result' = <<>>
    /\ calls' = <<>>
    /\ fetch_queries' = <<>>
    /\ events' = <<"create_llm", "raise">>
    /\ UNCHANGED <<provider_usage, ownedVars, loopVars>>

\* chat.py:99 / chat.py:307: data = fetch_people(query)
Fetch(W) ==
    /\ pc = "fetch"
    /\ \E outcome \in W.fetches :
        /\ data' = fetch_people(query, outcome)
        /\ fetch_outcome' = <<outcome>>
        /\ emitted' = emitted
        /\ pc' = after_fetch(outcome)
    /\ fetch_queries' = Append(fetch_queries, query)
    /\ events' = Append(events, "fetch")
    /\ UNCHANGED <<sessVars, dispatches, argVars, response, query, processed_data,
                   follow_up, tokenVars, streamVars, yielded, result, calls>>
    /\ UNCHANGED <<ownedVars, loopVars>>

\* chat.py:103-109 / chat.py:311-349: the data goes through the result
\* processor and the follow-up is built; the stream handler then
\* creates the second TokenStreamHandler and the second task
Process ==
    /\ pc = "process"
    /\ LET processed == result_processor(process_fetch_data, data, query)
       IN  /\ processed_data' = processed
           /\ follow_up' = format_follow_up(query, processed)
    /\ events' = Append(events, "process")
    /\ pc' = after_processing(kind)
    /\ IF kind = "invoke"
       THEN UNCHANGED streamVars
       ELSE /\ callback_handler' = TokenStreamHandler
            /\ accumulated_response' = <<>>
            /\ stream_task' = "created"
            /\ UNCHANGED <<llm_pending, llm_chunk>>
    /\ UNCHANGED <<sessVars, dispatches, argVars, response, query, data, tokenVars,
                   yielded, result, calls, fetch_queries>>
    /\ UNCHANGED <<ownedVars, loopVars, historyVars>>

\* chat.py:113-142: the second invoke returns, its usage is tracked, the
\* handler returns
SecondInvoke(W) ==
    /\ pc = "invoke2"
    /\ \E content \in W.texts2, r \in reports(MetadataCarrying, W.usages) :
        LET response_obj == AIMessage(content, r[1], r[2])
            text == strip(response_obj.content)
            session == agent_sessions[session_id]
            tracked == track_and_log_token_usage(response_obj, session.token_usage)
            next == after_second_response(text)
        IN  /\ agent_sessions' =
                   [agent_sessions EXCEPT ![session_id] =
                       [@ EXCEPT !.history = with_turns(@, follow_up, content),
                                 !.token_usage = tracked.token_usage]]
            /\ response' = text
            /\ request_input_tokens' = request_input_tokens + tracked.input_tokens
            /\ request_output_tokens' = request_output_tokens + tracked.output_tokens
            /\ calls' = Append(calls, [content |-> content, usage |-> r[2],
                                       status |-> "ok",
                                   inputs |-> current_inputs,
                                   runnable |-> agent_sessions[session_id].runnable,
                                   context |-> load_context(agent_sessions[session_id].history)])
            /\ provider_usage' =
                   [provider_usage EXCEPT
                       ![session_id] = plus(@, usage_or_zero(r[2]))]
            /\ pc' = next
            /\ result' = <<text, request_input_tokens', request_output_tokens'>>
            /\ events' = events \o <<"invoke2_start", "invoke2_end", "return">>
    /\ UNCHANGED <<create_llm_calls, dispatches, argVars, fetchVars, streamVars,
                   yielded, fetch_queries>>
    /\ UNCHANGED <<ownedVars, loopVars, historyVars>>

\* ----------------------------------------------- the producer task
\* stream_agent / stream_agent2 starts: the model begins to answer
TaskStart(W) ==
    /\ stream_task = "created"
    /\ \E content \in (IF calls = <<>> THEN W.texts1 ELSE W.texts2),
          n \in W.chunks :
        /\ llm_pending' = content
        /\ llm_chunk' = n
        /\ calls' = Append(calls, [content |-> content, usage |-> <<>>,
                                   status |-> "running",
                                   inputs |-> current_inputs,
                                   runnable |-> agent_sessions[session_id].runnable,
                                   context |-> load_context(agent_sessions[session_id].history)])
    /\ stream_task' = "streaming"
    /\ events' = Append(events, IF calls = <<>> THEN "invoke1_start"
                                                  ELSE "invoke2_start")
    /\ UNCHANGED <<sessVars, dispatches, pc, argVars, response, fetchVars,
                   tokenVars, callback_handler, accumulated_response, yielded,
                   result, fetch_queries>>
    /\ UNCHANGED <<ownedVars, loopVars, fetch_outcome>>
    /\ emitted' = Append(emitted, <<>>)

\* runnable.astream raises before the model runs: no callback is called
TaskRaises ==
    /\ stream_task = "created"
    /\ stream_task' = "failed"
    /\ calls' = Append(calls, [content |-> <<>>, usage |-> <<>>, status |-> "error",
                                   inputs |-> current_inputs,
                                   runnable |-> agent_sessions[session_id].runnable,
                                   context |-> load_context(agent_sessions[session_id].history)])
    /\ events' = Append(events, IF calls = <<>> THEN "invoke1_start"
                                                  ELSE "invoke2_start")
    /\ UNCHANGED <<sessVars, dispatches, pc, argVars, response, fetchVars,
                   tokenVars, callback_handler, accumulated_response,
                   llm_pending, llm_chunk, yielded, result, fetch_queries>>
    /\ UNCHANGED <<ownedVars, loopVars, fetch_outcome>>
    /\ emitted' = Append(emitted, <<>>)

\* TokenStreamHandler.on_llm_new_token
on_llm_new_token ==
    /\ stream_task = "streaming"
    /\ llm_pending # <<>>
    /\ LET n == IF llm_chunk < Len(llm_pending) THEN llm_chunk ELSE Len(llm_pending)
           token == SubSeq(llm_pending, 1, n)
       IN  /\ callback_handler' =
                  [callback_handler EXCEPT
                      !.token_queue = put(@, <<"token", token>>)]
           /\ llm_pending' = SubSeq(llm_pending, n + 1, Len(llm_pending))
           /\ emitted' = [emitted EXCEPT ![Len(emitted)] = Append(@, token)]
    /\ UNCHANGED <<sessVars, dispatches, pc, argVars, response, fetchVars,
                   tokenVars, accumulated_response, stream_task, llm_chunk,
                   yielded, result, calls, fetch_queries, events>>
    /\ UNCHANGED <<ownedVars, loopVars, fetch_outcome>>

\* TokenStreamHandler.on_llm_end
on_llm_end(W) ==
    /\ stream_task = "streaming"
    /\ llm_pending = <<>>
    /\ \E r \in reports(LlmOutputCarrying, W.usages) :
        /\ callback_handler' =
               [callback_handler EXCEPT
                   !.final_response = <<LLMResult(r[1], r[2])>>,
                   !.done = TRUE,
                   !.token_queue = put(@, <<"done", <<>> >>)]
        /\ calls' = [calls EXCEPT ![Len(calls)] =
                        [@ EXCEPT !.usage = r[2], !.status = "ok"]]
        /\ provider_usage' =
               [provider_usage EXCEPT
                   ![session_id] = plus(@, usage_or_zero(r[2]))]
    /\ stream_task' = "ended"
    /\ UNCHANGED <<agent_sessions, create_llm_calls, dispatches, pc, argVars,
                   response, fetchVars, tokenVars, accumulated_response,
                   llm_pending, llm_chunk, yielded, result, fetch_queries, events>>
    /\ UNCHANGED <<ownedVars, loopVars, historyVars>>

\* the chain of the task completes: RunnableWithMessageHistory appends the
\* question and the whole reply to the history
TaskDone ==
    /\ stream_task = "ended"
    /\ agent_sessions' =
           [agent_sessions EXCEPT ![session_id] =
               [@ EXCEPT !.history =
                   with_turns(@, IF Len(calls) = 1 THEN question ELSE follow_up,
                              calls[Len(calls)].content)]]
    /\ stream_task' = "finished"
    /\ UNCHANGED <<create_llm_calls, provider_usage, dispatches, pc, argVars,
                   response, fetchVars, tokenVars, callback_handler,
                   accumulated_response, llm_pending, llm_chunk, yielded, result,
                   calls, fetch_queries, events>>
    /\ UNCHANGED <<ownedVars, loopVars, historyVars>>

\* TokenStreamHandler.on_llm_error: the model fails while answering
on_llm_error ==
    /\ stream_task = "streaming"
    /\ callback_handler' =
           [callback_handler EXCEPT
               !.done = TRUE,
               !.token_queue = put(@, <<"error", <<"e">> >>)]
    /\ calls' = [calls EXCEPT ![Len(calls)] = [@ EXCEPT !.status = "error"]]
    /\ stream_task' = "failed"
    /\ UNCHANGED <<sessVars, dispatches, pc, argVars, response, fetchVars,
                   tokenVars, accumulated_response, llm_pending, llm_chunk,
                   yielded, result, fetch_queries, events>>
    /\ UNCHANGED <<ownedVars, loopVars, historyVars>>

\* ----------------------------------------------------- the consumer
\* TokenStreamHandler.get_tokens and the loop around it (chat.py:269-272,
\* chat.py:352-354): one item leaves the queue
get_tokens ==
    /\ pc \in {"stream1", "stream2"}
    /\ callback_handler.token_queue # <<>>
    /\ LET item == next_item(callback_handler)
       IN  /\ callback_handler' =
                  [callback_handler EXCEPT !.token_queue = Tail(@)]
           /\ CASE item[1] = "token" ->
                    /\ accumulated_response' = accumulated_response \o item[2]
                    /\ yielded' = Append(yielded, <<item[2], 0, 0>>)
                    /\ UNCHANGED <<pc, events>>
                [] item[1] = "done" ->
                    /\ pc' = IF pc = "stream1" THEN "await1" ELSE "await2"
                    /\ UNCHANGED <<accumulated_response, yielded, events>>
                [] item[1] = "error" ->
                    /\ pc' = after_failure(pc)
                    /\ events' = Append(events, "raise")
                    /\ UNCHANGED <<accumulated_response, yielded>>
    /\ UNCHANGED <<sessVars, dispatches, argVars, response, fetchVars, tokenVars,
                   stream_task, llm_pending, llm_chunk, result, calls,
                   fetch_queries>>
    /\ UNCHANGED <<ownedVars, loopVars, historyVars>>

\* chat.py:275-307 and 383: the first task is awaited, the usage is taken
\* from the handler or estimated, the response is classified; without the
\* marker the final element is yielded
AwaitFirstStream ==
    /\ pc = "await1"
    /\ stream_task = "finished"
    /\ LET text == strip(accumulated_response)
           usage == stream_token_usage(callback_handler.final_response, text)
           next == after_first_response(text)
       IN  /\ response' = text
           /\ agent_sessions' =
                  [agent_sessions EXCEPT ![session_id] =
                      [@ EXCEPT !.token_usage = stream_ledger(@, usage)]]
           /\ request_input_tokens' = request_input_tokens + usage.input_tokens
           /\ request_output_tokens' = request_output_tokens + usage.output_tokens
           /\ pc' = next
           /\ IF next = "fetch"
              THEN /\ query' = extract_query(text)
                   /\ yielded' = yielded
                   /\ events' = Append(events, "invoke1_end")
              ELSE /\ query' = query
                   /\ yielded' = Append(yielded, final_element(request_input_tokens',
                                                             request_output_tokens'))
                   /\ events' = events \o <<"invoke1_end", "return">>
    /\ UNCHANGED <<create_llm_calls, provider_usage, dispatches, argVars, data,
                   processed_data, follow_up, streamVars, result, calls,
                   fetch_queries>>
    /\ UNCHANGED <<ownedVars, loopVars, historyVars>>

\* chat.py:356-383: the second task is awaited, the usage is taken from the
\* handler or estimated, the final element is yielded
AwaitSecondStream ==
    /\ pc = "await2"
    /\ stream_task = "finished"
    /\ LET text == strip(accumulated_response)
           usage == stream_token_usage(callback_handler.final_response, text)
       IN  /\ response' = text
           /\ agent_sessions' =
                  [agent_sessions EXCEPT ![session_id] =
                      [@ EXCEPT !.token_usage = stream_ledger(@, usage)]]
           /\ request_input_tokens' = request_input_tokens + usage.input_tokens
           /\ request_output_tokens' = request_output_tokens + usage.output_tokens
           /\ pc' = after_second_response(text)
           /\ yielded' = Append(yielded, final_element(request_input_tokens',
                                                     request_output_tokens'))
           /\ events' = events \o <<"invoke2_end", "return">>
    /\ UNCHANGED <<create_llm_calls, provider_usage, dispatches, argVars,
                   fetchVars, streamVars, result, calls, fetch_queries>>
    /\ UNCHANGED <<ownedVars, loopVars, historyVars>>

\* the caller stops consuming while fragments are being delivered: the
\* generator is closed at the yield of a fragment loop or cancelled in the
\* await of get_tokens (agent.py:361-377 is the caller)
Cancel ==
    /\ pc \in {"stream1", "stream2"}
    /\ pc' = after_close(pc)
    /\ \E fate \in TaskFates :
           stream_task' = IF fate = "collected" /\ stream_task = "streaming"
                          THEN "collected" ELSE stream_task
    /\ events' = Append(events, "cancel")
    /\ UNCHANGED <<sessVars, dispatches, argVars, response, fetchVars, tokenVars,
                   callback_handler, accumulated_response, llm_pending,
                   llm_chunk, yielded, result, calls, fetch_queries>>
    /\ UNCHANGED <<ownedVars, loopVars, historyVars>>

\* ----------------------------------------- TokenUsage used on its own
\* the owner of a TokenUsage calls add
OwnerAdds ==
    /\ owned_added.tokens < MaxLedger
    /\ \E i \in 0..(MaxTok + 1), o \in 0..(MaxTok + 1) :
        /\ owned_usage' = add(owned_usage, i, o)
        /\ owned_added' = [owned_added EXCEPT !.tokens = @ + i + o]
    /\ UNCHANGED <<sessVars, dispatches, pc, argVars, response, fetchVars,
                   tokenVars, streamVars, yielded, result, calls, fetch_queries,
                   events, loopVars, historyVars>>

\* the owner of a TokenUsage calls reset
OwnerResets ==
    /\ owned_usage' = reset(owned_usage)
    /\ owned_added' = [tokens |-> 0, after_reset |-> TRUE]
    /\ UNCHANGED <<sessVars, dispatches, pc, argVars, response, fetchVars,
                   tokenVars, streamVars, yielded, result, calls, fetch_queries,
                   events, loopVars, historyVars>>

\* ------------------------------------- handlers on one event loop
\* everything a coroutine of the event loop does not touch while it gets or
\* creates its session
dispatchVars ==
    <<provider_usage, dispatches, pc, argVars, response, fetchVars, tokenVars,
      streamVars, yielded, result, calls, fetch_queries, events, ownedVars,
      historyVars>>

\* a handler that awaits between finding no session and building one
releases_loop_before_create(at) == at \in {"create", "streaming", "done"}

\* where a handler gives the event loop back: chat.py:42-56 and 209-223
\* hold no await; process_chat_message holds none at all, and
\* process_chat_message_stream first awaits in its loop over get_tokens
\* (chat.py:269)
releases_loop(at) == at \in {"streaming", "done"}

after_step(t, at) == IF releases_loop(at) THEN NoTask ELSE t

\* the event loop starts the handler of a request
Arrive(t) ==
    /\ running = NoTask
    /\ tasks[t].pc = "new"
    /\ \E k \in {"invoke", "stream"}, sid \in {"s1", "s2"} :
        tasks' = [tasks EXCEPT ![t] = [@ EXCEPT !.pc = "lookup", !.kind = k,
                                                !.sid = sid]]
    /\ running' = t
    /\ UNCHANGED <<agent_sessions, create_llm_calls, dispatchVars>>

\* the event loop resumes a handler that gave it back
Schedule(t) ==
    /\ running = NoTask
    /\ tasks[t].pc \notin {"new", "done"}
    /\ running' = t
    /\ UNCHANGED <<agent_sessions, create_llm_calls, dispatchVars, tasks>>

\* chat.py:42 / chat.py:209: if session_id not in agent_sessions
Lookup(t) ==
    /\ running = t
    /\ tasks[t].pc = "lookup"
    /\ LET found == tasks[t].sid \in DOMAIN agent_sessions
           at == IF found THEN "reuse" ELSE "create"
       IN  /\ tasks' = [tasks EXCEPT ![t] = [@ EXCEPT !.pc = at, !.found = found]]
           /\ running' = after_step(t, at)
    /\ UNCHANGED <<agent_sessions, create_llm_calls, dispatchVars>>

\* chat.py:44-50 / chat.py:211-217: create_agent and TokenUsage()
Create(t) ==
    /\ running = t
    /\ tasks[t].pc = "create"
    /\ create_llm_calls' = create_llm_calls + 1
    /\ tasks' = [tasks EXCEPT ![t] = [@ EXCEPT !.pc = "insert",
                                              !.runnable = create_llm_calls + 1]]
    /\ running' = after_step(t, "insert")
    /\ UNCHANGED <<agent_sessions, dispatchVars>>

\* chat.py:51 / chat.py:218: agent_sessions[session_id] = (...)
Insert(t) ==
    /\ running = t
    /\ tasks[t].pc = "insert"
    /\ agent_sessions' =
           (tasks[t].sid :> [runnable |-> tasks[t].runnable, history |-> <<>>,
                             profile |-> Profile1, token_usage |-> TokenUsage])
               @@ agent_sessions
    /\ tasks' = [tasks EXCEPT ![t] = [@ EXCEPT !.pc = "invoke"]]
    /\ running' = after_step(t, "invoke")
    /\ UNCHANGED <<create_llm_calls, dispatchVars>>

\* chat.py:54-56 / chat.py:221-223: the stored session is taken
Reuse(t) ==
    /\ running = t
    /\ tasks[t].pc = "reuse"
    /\ tasks' = [tasks EXCEPT ![t] =
                    [@ EXCEPT !.pc = "invoke",
                              !.runnable = agent_sessions[tasks[t].sid].runnable]]
    /\ agent_sessions' =
           [agent_sessions EXCEPT ![tasks[t].sid] = [@ EXCEPT !.profile = Profile1]]
    /\ running' = after_step(t, "invoke")
    /\ UNCHANGED <<create_llm_calls, dispatchVars>>

\* chat.py:57-142: process_chat_message runs to its return without an await;
\* chat.py:224-269: process_chat_message_stream runs to its first await
Invoke(t) ==
    /\ running = t
    /\ tasks[t].pc = "invoke"
    /\ LET at == IF tasks[t].kind = "invoke" THEN "done" ELSE "streaming"
       IN  /\ tasks' = [tasks EXCEPT ![t] = [@ EXCEPT !.pc = at]]
           /\ running' = after_step(t, at)
    /\ UNCHANGED <<agent_sessions, create_llm_calls, dispatchVars>>

\* chat.py:269-383: the streaming handler, resumed, comes to its end
StreamEnds(t) ==
    /\ running = t
    /\ tasks[t].pc = "streaming"
    /\ tasks' = [tasks EXCEPT ![t] = [@ EXCEPT !.pc = "done"]]
    /\ running' = after_step(t, "done")
    /\ UNCHANGED <<agent_sessions, create_llm_calls, dispatchVars>>

\* ------------------------------------------- agent.py  the endpoints
\* agent.py:266-294: what /chat answers once process_chat_message has
\* returned res or raised: the message with the usage of the request, or
\* HTTP 500
chat_endpoint(at, res) ==
    IF at = "failed"
    THEN [status |-> 500]
    ELSE [status |-> 200, content |-> res[1],
          tokenUsage |-> <<res[2], res[3], res[2] + res[3]>>]

\* agent.py:374-377: a non-empty chunk becomes a data event
RECURSIVE data_events(_)
data_events(ys) ==
    IF ys = <<>> THEN <<>>
    ELSE (IF Head(ys)[1] # <<>> THEN << <<"data", Head(ys)[1]>> >> ELSE <<>>)
             \o data_events(Tail(ys))

\* agent.py:369-372: the counts of the last element that carries any
RECURSIVE final_tokens(_)
final_tokens(ys) ==
    IF ys = <<>> THEN <<0, 0>>
    ELSE LET last == ys[Len(ys)]
         IN  IF last[2] > 0 \/ last[3] > 0 THEN <<last[2], last[3]>>
             ELSE final_tokens(SubSeq(ys, 1, Len(ys) - 1))

\* agent.py:362-399: the events /chat/stream has sent when the handler has
\* yielded ys and is at its end ("done"), has raised ("failed") or is still
\* at work
generate_stream(ys, at) ==
    data_events(ys)
        \o (IF at = "done" THEN << <<"tokenUsage", final_tokens(ys)>> >>
            ELSE IF at = "failed" THEN << <<"error">> >>
            ELSE <<>>)

\* ------------------------- streaming handlers in flight at the same time
\* the two requests whose streaming handlers are in flight together
StreamingPair == {1, 2}

\* what the model and the fetch endpoint answer the handlers in flight
ConcurrentWorld ==
    [texts1 |-> {Okay, FetchB},
     texts2 |-> {DoneText},
     reports |-> {<<"openai", <<1, 2>> >>, <<"none", <<>> >>},
     fetch |-> [ok |-> TRUE, text |-> EmptyList],
     session |-> "s1",
     chunk |-> MaxFrag + 2]

\* a handler that works on the copy of the ledger it took when it started
session_ledger_snapshot(sessions, sid, snapshot) == snapshot

\* chat.py:221, 289, 369: token_usage is the session's TokenUsage object
\* itself, taken out of the table once; add changes it in place
\* (models.py:26-29)
session_ledger(sessions, sid, snapshot) == sessions[sid].token_usage

\* chat.py:208-266: the handler gets or creates its session, builds the
\* first TokenStreamHandler and creates the first task, all without an
\* await; it then waits in get_tokens (chat.py:269)
StreamBegin(t) ==
    /\ running = NoTask
    /\ tasks[t].pc = "new"
    /\ LET sid == ConcurrentWorld.session
           table == get_or_create(agent_sessions, sid, Profile1, create_llm_calls)
       IN  /\ agent_sessions' = table
           /\ create_llm_calls' =
                  IF sid \in DOMAIN agent_sessions
                  THEN create_llm_calls ELSE create_llm_calls + 1
           /\ provider_usage' =
                  IF sid \in DOMAIN agent_sessions
                  THEN provider_usage ELSE provider_usage @@ (sid :> <<0, 0>>)
           /\ tasks' = [tasks EXCEPT ![t] =
                  [pc |-> "stream1", kind |-> "stream", sid |-> sid,
                   found |-> sid \in DOMAIN agent_sessions,
                   runnable |-> table[sid].runnable,
                   question |-> Question1,
                   callback_handler |-> TokenStreamHandler,
                   accumulated_response |-> <<>>,
                   stream_task |-> "created",
                   llm_pending |-> <<>>,
                   contents |-> <<>>, follow_up |-> <<>>, contexts |-> <<>>,
                   snapshot |-> table[sid].token_usage]]
    /\ UNCHANGED <<dispatches, pc, argVars, response, fetchVars, tokenVars,
                   streamVars, yielded, result, calls, fetch_queries, events,
                   ownedVars, historyVars, running>>

\* stream_agent / stream_agent2 of a handler starts: the runnable loads the
\* session's history and the model begins to answer
StreamTaskStart(t) ==
    /\ running = NoTask
    /\ tasks[t].pc # "new"
    /\ tasks[t].stream_task = "created"
    /\ \E content \in (IF tasks[t].contents = <<>> THEN ConcurrentWorld.texts1
                                                  ELSE ConcurrentWorld.texts2) :
        tasks' = [tasks EXCEPT ![t] =
            [@ EXCEPT !.stream_task = "streaming",
                      !.llm_pending = content,
                      !.contents = Append(@, content),
                      !.contexts = Append(@,
                          load_context(agent_sessions[tasks[t].sid].history))]]
    /\ UNCHANGED <<agent_sessions, create_llm_calls, dispatchVars, running>>

\* on_llm_new_token of the handler's TokenStreamHandler
StreamToken(t) ==
    /\ running = NoTask
    /\ tasks[t].pc # "new"
    /\ tasks[t].stream_task = "streaming"
    /\ tasks[t].llm_pending # <<>>
    /\ LET n == IF Len(tasks[t].llm_pending) < ConcurrentWorld.chunk
                THEN Len(tasks[t].llm_pending) ELSE ConcurrentWorld.chunk
           token == SubSeq(tasks[t].llm_pending, 1, n)
       IN  tasks' = [tasks EXCEPT ![t] =
               [@ EXCEPT !.llm_pending = SubSeq(@, n + 1, Len(@)),
                         !.callback_handler.token_queue = put(@, <<"token", token>>)]]
    /\ UNCHANGED <<agent_sessions, create_llm_calls, dispatchVars, running>>

\* on_llm_end of the handler's TokenStreamHandler
StreamLlmEnd(t) ==
    /\ running = NoTask
    /\ tasks[t].pc # "new"
    /\ tasks[t].stream_task = "streaming"
    /\ tasks[t].llm_pending = <<>>
    /\ \E r \in ConcurrentWorld.reports :
        /\ tasks' = [tasks EXCEPT ![t] =
               [@ EXCEPT !.stream_task = "ended",
                         !.callback_handler.final_response = <<LLMResult(r[1], r[2])>>,
                         !.callback_handler.done = TRUE,
                         !.callback_handler.token_queue = put(@, <<"done", <<>> >>)]]
        /\ provider_usage' =
               [provider_usage EXCEPT ![tasks[t].sid] = plus(@, usage_or_zero(r[2]))]
    /\ UNCHANGED <<agent_sessions, create_llm_calls, dispatches, pc, argVars,
                   response, fetchVars, tokenVars, streamVars, yielded, result,
                   calls, fetch_queries, events, ownedVars, historyVars, running>>

\* the chain of the handler's task completes: the question and the whole
\* reply are appended to the session's history
StreamTaskDone(t) ==
    /\ running = NoTask
    /\ tasks[t].pc # "new"
    /\ tasks[t].stream_task = "ended"
    /\ agent_sessions' =
           [agent_sessions EXCEPT ![tasks[t].sid] =
               [@ EXCEPT !.history =
                   with_turns(@, IF Len(tasks[t].contents) = 1
                                 THEN tasks[t].question ELSE tasks[t].follow_up,
                              tasks[t].contents[Len(tasks[t].contents)])]]
    /\ tasks' = [tasks EXCEPT ![t] = [@ EXCEPT !.stream_task = "finished"]]
    /\ UNCHANGED <<create_llm_calls, dispatchVars, running>>

\* chat.py:269-272 / 352-354: get_tokens hands the handler the next item;
\* the handler yields a token to its caller, which is where it gives the
\* event loop back
StreamConsume(t) ==
    /\ running = NoTask
    /\ tasks[t].pc \in {"stream1", "stream2"}
    /\ tasks[t].callback_handler.token_queue # <<>>
    /\ LET item == next_item(tasks[t].callback_handler)
       IN  tasks' = [tasks EXCEPT ![t] =
               [@ EXCEPT !.callback_handler.token_queue = Tail(@),
                         !.accumulated_response =
                             IF item[1] = "token" THEN @ \o item[2] ELSE @,
                         !.pc = IF item[1] = "token" THEN @
                                ELSE IF @ = "stream1" THEN "await1" ELSE "await2"]]
    /\ UNCHANGED <<agent_sessions, create_llm_calls, dispatchVars, running>>

\* chat.py:275-349 and 356-383: the task is awaited, the usage goes to the
\* ledger, and after a first response in query mode the data is fetched
\* and processed and the second task is created, all without an await
StreamAwait(t) ==
    /\ running = NoTask
    /\ tasks[t].pc \in {"await1", "await2"}
    /\ tasks[t].stream_task = "finished"
    /\ LET text == strip(tasks[t].accumulated_response)
           usage == stream_token_usage(tasks[t].callback_handler.final_response, text)
           token_usage == session_ledger(agent_sessions, tasks[t].sid,
                                         tasks[t].snapshot)
           next == IF tasks[t].pc = "await1" THEN after_first_response(text)
                   ELSE after_second_response(text)
           fetch_query == extract_query(text)
           processed == result_processor("none",
                            fetch_people(fetch_query, ConcurrentWorld.fetch),
                            fetch_query)
       IN  /\ agent_sessions' =
                  [agent_sessions EXCEPT ![tasks[t].sid] =
                      [@ EXCEPT !.token_usage = stream_ledger(token_usage, usage)]]
           /\ tasks' = [tasks EXCEPT ![t] =
                  IF next = "fetch"
                  THEN [@ EXCEPT !.pc = "stream2",
                                 !.follow_up = format_follow_up(fetch_query, processed),
                                 !.callback_handler = TokenStreamHandler,
                                 !.accumulated_response = <<>>,
                                 !.stream_task = "created"]
                  ELSE [@ EXCEPT !.pc = "done"]]
    /\ UNCHANGED <<create_llm_calls, dispatchVars, running>>

\* ------------------------------------------------------- specifications
Step(W) ==
    \/ NewMessage(W)
    \/ FirstInvoke(W)
    \/ InvokeRaises
    \/ Fetch(W)
    \/ Process
    \/ SecondInvoke(W)
    \/ TaskStart(W)
    \/ TaskRaises
    \/ on_llm_new_token
    \/ on_llm_end(W)
    \/ TaskDone
    \/ on_llm_error
    \/ get_tokens
    \/ AwaitFirstStream
    \/ AwaitSecondStream

Next == Step(SessionWorld)

\* every message sequence of one session
Spec == Init /\ [][Next]_vars

\* the event loop runs every coroutine that can run: a created task is
\* started, a started producer goes on until it terminates, and the
\* consumer takes an item whenever the queue holds one
Producer ==
    \/ on_llm_new_token
    \/ on_llm_end(SessionWorld)
    \/ on_llm_error
    \/ TaskDone

Fairness ==
    /\ WF_vars(TaskStart(SessionWorld) \/ TaskRaises)
    /\ WF_vars(Producer)
    /\ WF_vars(get_tokens)

\* every message sequence of one session, on an event loop that starves
\* no coroutine
SpecLive == Init /\ [][Next]_vars /\ Fairness

NextCancel == Step(CancelWorld) \/ Cancel

\* one message, with a caller that may stop consuming the stream
SpecCancel == Init /\ [][NextCancel]_vars

NextEndpoint == Step(EndpointWorld)

\* messages of two agents that arrive through the endpoints
SpecEndpoint == Init /\ [][NextEndpoint]_vars

NextFaults ==
    Step(FaultWorld) \/ TrackRaises(FaultWorld) \/ CreateRaises(FaultWorld)

\* messages of one session, with usage metadata that may be malformed and
\* a model factory that may fail
SpecFaults == Init /\ [][NextFaults]_vars

NextText == Step(TextWorld)

\* one message, every spelling of the first response
SpecText == Init /\ [][NextText]_vars

NextProfiles == Step(ProfileWorld)

\* messages of two sessions, with profiles that change between messages
SpecProfiles == Init /\ [][NextProfiles]_vars

NextLoop ==
    \E t \in Tasks :
        \/ Arrive(t)
        \/ Schedule(t)
        \/ Lookup(t)
        \/ Create(t)
        \/ Insert(t)
        \/ Reuse(t)
        \/ Invoke(t)
        \/ StreamEnds(t)

\* requests handled at once by the one event loop of the server
SpecLoop == Init /\ [][NextLoop]_vars

NextConcurrent ==
    \E t \in StreamingPair :
        \/ StreamBegin(t)
        \/ StreamTaskStart(t)
        \/ StreamToken(t)
        \/ StreamLlmEnd(t)
        \/ StreamTaskDone(t)
        \/ StreamConsume(t)
        \/ StreamAwait(t)

\* two streaming handlers of one session, interleaved at every await
SpecConcurrent == Init /\ [][NextConcurrent]_vars

NextFetch == Step(FetchWorld)

\* one message, every fetch outcome, both result processors
SpecFetch == Init /\ [][NextFetch]_vars

NextLedger == OwnerAdds \/ OwnerResets

\* every sequence of add and reset calls on one TokenUsage
SpecLedger == Init /\ [][NextLedger]_vars

\* ------------------------------------------------------------ properties
IsPrefix(a, b) == Len(a) <= Len(b) /\ SubSeq(b, 1, Len(a)) = a

Range(f) == {f[i] : i \in DOMAIN f}

\* two characters that are the same letter in either case, or equal
SameLetter(c, d) ==
    \/ c = d
    \/ \E i \in 1..Len(LowerCase) : {c, d} = {LowerCase[i], UpperCase[i]}

\* the text without the whitespace around it
Trimmed(text) ==
    LET kept == {i \in 1..Len(text) : text[i] \notin Whitespace}
    IN  IF kept = {} THEN <<>>
        ELSE SubSeq(text, CHOOSE i \in kept : \A j \in kept : i <= j,
                          CHOOSE i \in kept : \A j \in kept : j <= i)

\* the text, once trimmed, begins with the marker in any case
BeginsWithMarker(text) ==
    LET t == Trimmed(text)
    IN  /\ Len(t) >= Len(FETCH)
        /\ \A j \in 1..Len(FETCH) : SameLetter(t[j], FETCH[j])

\* what follows the marker and its optional colon, trimmed
AfterMarker(text) ==
    LET t == Trimmed(text)
        rest == SubSeq(t, Len(FETCH) + 1, Len(t))
    IN  IF rest # <<>> /\ Head(rest) = ":" THEN Trimmed(Tail(rest)) ELSE Trimmed(rest)

RECURSIVE SumUsage(_)
SumUsage(cs) ==
    IF cs = <<>> THEN <<0, 0>>
    ELSE plus(usage_or_zero(Head(cs).usage), SumUsage(Tail(cs)))

Counters(t) == <<t.input_tokens, t.output_tokens>>

\* the ledger of the session of the message in hand
Ledger == agent_sessions[session_id].token_usage

Ended == pc \in {"done", "failed"}

\* C1: a dispatch never makes more than two model invocations nor more than
\* one fetch; while it runs the fetches are the invocations or one fewer, and
\* once it has ended it has made one or two invocations and exactly one
\* fetch fewer.
C1_BoundedRounds ==
    /\ Len(calls) <= 2
    /\ Len(fetch_queries) <= 1
    /\ Len(fetch_queries) \in {Len(calls) - 1, Len(calls)}
    /\ Ended => /\ Len(calls) \in {1, 2}
                /\ Len(fetch_queries) = Len(calls) - 1

\* a streaming dispatch ends after two invocations and one fetch
C1_Witness ==
    /\ pc = "done" /\ kind = "stream"
    /\ Len(calls) = 2 /\ Len(fetch_queries) = 1

OrderDirect == <<"invoke1_start", "invoke1_end", "return">>

OrderQuery ==
    <<"invoke1_start", "invoke1_end", "fetch", "process",
      "invoke2_start", "invoke2_end", "return">>

\* C2: the events of a dispatch are always a beginning of one of the two
\* orders (first invocation, return) or (first invocation, fetch, result
\* processing, second invocation, return), possibly cut short by a failure
\* of the invocation in progress; the dispatch is done exactly when the
\* return is its last event.
C2_EventOrder ==
    LET raised == events # <<>> /\ events[Len(events)] = "raise"
        e == IF raised THEN SubSeq(events, 1, Len(events) - 1) ELSE events
    IN  /\ IsPrefix(e, OrderDirect) \/ IsPrefix(e, OrderQuery)
        /\ raised => /\ e # <<>>
                     /\ e[Len(e)] \in {"invoke1_start", "invoke2_start"}
        /\ pc = "done" <=> (events # <<>> /\ events[Len(events)] = "return")

\* a non-streaming dispatch has gone through the whole query order
C2_Witness == kind = "invoke" /\ events = OrderQuery

\* C3: a dispatch whose first response, once trimmed and whatever its case,
\* begins with the marker does not return before it has made exactly one
\* fetch and exactly two invocations, both answered.
C3_MarkerMeansOneFetch ==
    (pc = "done" /\ BeginsWithMarker(calls[1].content)) =>
        /\ Len(fetch_queries) = 1
        /\ Len(calls) = 2
        /\ \A i \in 1..2 : calls[i].status = "ok"

\* a padded, lower-case marker without a colon was followed to the end
C3_Witness ==
    /\ pc = "done" /\ Len(calls) = 2
    /\ Head(calls[1].content) \in Whitespace
    /\ "f" \in Range(calls[1].content)
    /\ ":" \notin Range(calls[1].content)

\* C4: a dispatch whose first response does not begin with the marker
\* returns after exactly one invocation and no fetch, and
\* process_chat_message returns that response with only the whitespace
\* around it removed.
C4_PlainResponseReturned ==
    (pc = "done" /\ ~BeginsWithMarker(calls[1].content)) =>
        /\ Len(calls) = 1
        /\ Len(fetch_queries) = 0
        /\ response = Trimmed(calls[1].content)
        /\ kind = "invoke" => result[1] = Trimmed(calls[1].content)

\* a padded response holding the marker in its middle was returned trimmed
C4_Witness ==
    /\ pc = "done" /\ kind = "invoke" /\ Len(calls) = 1
    /\ result[1] = <<"A", " ", "F", "E", "T", "C", "H">>
    /\ calls[1].content # result[1]

\* C5: once the second invocation has answered the dispatch is over: no
\* second fetch, no third invocation, and the second response, trimmed, is
\* the final text, also when it begins with the marker.
C5_SecondResponseFinal ==
    (Len(calls) = 2 /\ calls[2].status = "ok" /\ pc \notin {"stream2", "await2"}) =>
        /\ pc = "done"
        /\ Len(fetch_queries) = 1
        /\ response = Trimmed(calls[2].content)
        /\ kind = "invoke" => result[1] = Trimmed(calls[2].content)

\* a second response that begins with the marker was returned
C5_Witness ==
    /\ pc = "done" /\ kind = "invoke" /\ Len(calls) = 2
    /\ BeginsWithMarker(calls[2].content)

\* C6: the query of every fetch is what follows the marker and its optional
\* colon in the trimmed first response, with the whitespace around it
\* removed.
C6_QueryFollowsMarker ==
    fetch_queries # <<>> => fetch_queries[1] = AfterMarker(calls[1].content)

\* C7: the token counts process_chat_message returns are the sums of the
\* usage pairs of the invocations of this message, and of no earlier one.
C7_ResultIsPerMessage ==
    (pc = "done" /\ kind = "invoke") =>
        <<result[2], result[3]>> = SumUsage(calls)

\* the second message of a session returned the usage of its two invocations
C7_Witness ==
    /\ pc = "done" /\ kind = "invoke" /\ dispatches = 2
    /\ ledger_at_start.input_tokens > 0
    /\ Len(calls) = 2
    /\ result[2] > 0

\* C8: between dispatches every session's counters are the sums of the
\* usage pairs its invocations reported, and a completed
\* process_chat_message has raised them by exactly the counts it returned.
C8_LedgerIsSumOfInvocations ==
    /\ pc \in {"idle", "done", "failed"} =>
           \A sid \in DOMAIN agent_sessions :
               Counters(agent_sessions[sid].token_usage) = provider_usage[sid]
    /\ (pc = "done" /\ kind = "invoke") =>
           Counters(Ledger) = plus(Counters(ledger_at_start),
                                   <<result[2], result[3]>>)

\* a second dispatch added reported usage to a ledger that already held some
C8_Witness ==
    /\ pc = "done" /\ dispatches = 2 /\ kind = "stream"
    /\ ledger_at_start.input_tokens > 0
    /\ Ledger.input_tokens > ledger_at_start.input_tokens

\* C9: over one process_chat_message_stream run the session's counters rise
\* by exactly the totals carried in the run's final element.
C9_StreamLedgerMatchesFinalElement ==
    (pc = "done" /\ kind = "stream") =>
        LET final == yielded[Len(yielded)]
        IN  Counters(Ledger) = plus(Counters(ledger_at_start),
                                    <<final[2], final[3]>>)

\* C10: a TokenUsage holds the two counters and nothing else, and after any
\* calls of add and reset its total_tokens is the sum of the two counters
\* and the sum of everything added since the last reset.
C10_TotalIsDerived ==
    /\ DOMAIN owned_usage = {"input_tokens", "output_tokens"}
    /\ total_tokens(owned_usage) =
           owned_usage.input_tokens + owned_usage.output_tokens
    /\ total_tokens(owned_usage) = owned_added.tokens

\* both counters were added to again after a reset
C10_Witness ==
    /\ owned_added.after_reset
    /\ owned_usage.input_tokens > 0
    /\ owned_usage.output_tokens > 0

\* C11: across dispatches of either handler every session's two counters
\* are non-negative and no step makes either of them smaller.
C11_CountersNeverDecrease ==
    /\ [](\A sid \in DOMAIN agent_sessions :
              /\ agent_sessions[sid].token_usage.input_tokens >= 0
              /\ agent_sessions[sid].token_usage.output_tokens >= 0)
    /\ [][\A sid \in DOMAIN agent_sessions :
              /\ sid \in DOMAIN agent_sessions'
              /\ agent_sessions'[sid].token_usage.input_tokens
                     >= agent_sessions[sid].token_usage.input_tokens
              /\ agent_sessions'[sid].token_usage.output_tokens
                     >= agent_sessions[sid].token_usage.output_tokens]_vars

\* a ledger that holds tokens went through a streaming dispatch that had to
\* estimate, and through a non-streaming one before it
C11_Witness ==
    /\ pc = "done" /\ kind = "stream" /\ dispatches = 2
    /\ ledger_at_start.output_tokens > 0
    /\ calls[1].usage = <<>>
    /\ Ledger = ledger_at_start

\* C12: the model factory is called once per session id, and a session
\* keeps its model binding for ever; a message for an existing session finds
\* the conversation memory and the TokenUsage as the last message left them,
\* whatever its profile argument, and every invocation of a message goes to
\* the binding of its session.
C12_SameSessionReused ==
    /\ [](/\ create_llm_calls = Cardinality(DOMAIN agent_sessions)
          /\ \A a, b \in DOMAIN agent_sessions :
                 agent_sessions[a].runnable = agent_sessions[b].runnable => a = b
          /\ \A i \in 1..Len(calls) :
                 calls[i].runnable = agent_sessions[session_id].runnable)
    /\ [][/\ \A sid \in DOMAIN agent_sessions :
                 /\ sid \in DOMAIN agent_sessions'
                 /\ agent_sessions'[sid].runnable = agent_sessions[sid].runnable
                 /\ IsPrefix(agent_sessions[sid].history, agent_sessions'[sid].history)
          /\ (dispatches' # dispatches /\ session_id' \in DOMAIN agent_sessions) =>
                 /\ create_llm_calls' = create_llm_calls
                 /\ agent_sessions'[session_id'].history
                        = agent_sessions[session_id'].history
                 /\ agent_sessions'[session_id'].token_usage
                        = agent_sessions[session_id'].token_usage]_vars

\* the second message of a session came with another profile and was
\* answered out of the memory and the ledger of the first
C12_Witness ==
    /\ pc = "done" /\ dispatches = 2 /\ create_llm_calls = 1
    /\ profile = Profile2
    /\ Len(agent_sessions[session_id].history) = 4
    /\ ledger_at_start.input_tokens > 0
    /\ Ledger.input_tokens > ledger_at_start.input_tokens

NotSeparator(piece) == piece # ", "

\* C13: while a message is handled the stored profile of its session is the
\* profile the message came with, also when the session held another one,
\* and the inputs of each of its invocations carry that profile's name,
\* location and listings.
C13_ProfileReplaced ==
    pc # "idle" =>
        /\ agent_sessions[session_id].profile = profile
        /\ \A i \in 1..Len(calls) :
               /\ calls[i].inputs.agent_name = profile.agent_name
               /\ calls[i].inputs.location = profile.location
               /\ SelectSeq(calls[i].inputs.listings, NotSeparator)
                      = profile.listings
               /\ Len(calls[i].inputs.listings)
                      = IF profile.listings = <<>> THEN 0
                        ELSE 2 * Len(profile.listings) - 1

\* a session that held the one-listing profile answered a message that came
\* with the two-listing profile, in two invocations
C13_Witness ==
    /\ pc = "done" /\ Len(calls) = 2
    /\ session_at_start # <<>>
    /\ session_at_start[1].profile = Profile1
    /\ profile = Profile2
    /\ calls[2].inputs.listings = <<"2 High St", ", ", "3 Low Rd">>

Started(t) == tasks[t].pc \in {"invoke", "streaming", "done"}

Created(t) == ~tasks[t].found /\ tasks[t].runnable # 0

\* C14: however the handlers of concurrent messages are scheduled, no two
\* of them build a session for the same id, the model factory has been
\* called once for each session built, and every handler that has its
\* session holds the model binding the store holds for its id.
C14_OneSessionPerId ==
    /\ \A a, b \in Tasks :
           (Created(a) /\ Created(b) /\ tasks[a].sid = tasks[b].sid) => a = b
    /\ create_llm_calls = Cardinality({t \in Tasks : Created(t)})
    /\ running = NoTask => create_llm_calls = Cardinality(DOMAIN agent_sessions)
    /\ \A t \in Tasks :
           Started(t) =>
               /\ tasks[t].sid \in DOMAIN agent_sessions
               /\ tasks[t].runnable = agent_sessions[tasks[t].sid].runnable

\* while the first message of a new session id is still streaming, a second
\* message for that id has found and taken its session
C14_Witness ==
    \E a, b \in Tasks :
        /\ tasks[a].sid = tasks[b].sid
        /\ tasks[a].pc = "streaming" /\ ~tasks[a].found
        /\ tasks[b].pc = "invoke" /\ tasks[b].found

FetchFailed == fetch_outcome # <<>> /\ ~fetch_outcome[1].ok

\* C15: the fetch never ends a dispatch: the result processing is what
\* follows it; a failure of the fetch reaches the handler as the error
\* text, the second invocation is made all the same, only a failure of that
\* invocation can fail the dispatch, and a dispatch that is done has
\* returned the second response.
C15_FetchFailureNotFatal ==
    /\ \A i \in 1..Len(events) :
           events[i] = "fetch" => (i = Len(events) \/ events[i + 1] = "process")
    /\ (events # <<>> /\ events[Len(events)] = "fetch") => pc = "process"
    /\ FetchFailed =>
           /\ data = ErrorFetchingData \o fetch_outcome[1].text
           /\ pc \in {"process", "invoke2", "stream2", "await2", "done", "failed"}
           /\ pc = "failed" => (Len(calls) = 2 /\ calls[2].status = "error")
           /\ pc = "done" => /\ Len(calls) = 2
                             /\ calls[2].status = "ok"
                             /\ response = Trimmed(calls[2].content)

\* a streaming dispatch whose fetch failed has delivered its final element
C15_Witness ==
    /\ FetchFailed
    /\ pc = "done" /\ kind = "stream"
    /\ yielded[Len(yielded)][1] = <<>>

\* C16: when the fetch has failed, the data embedded in the follow-up of
\* the second invocation is the error text fetch_people returned, character
\* for character, whichever result processor is in use.
C16_ErrorTextVerbatim ==
    (FetchFailed /\ Len(calls) = 2) =>
        calls[2].inputs.question =
            FollowUpHead \o query \o FollowUpMid
                \o (ErrorFetchingData \o fetch_outcome[1].text) \o FollowUpTail

\* the text holds the other as one piece
Contains(text, piece) ==
    \E i \in 0..(Len(text) - Len(piece)) :
        SubSeq(text, i + 1, i + Len(piece)) = piece

\* the text holds an e-mail address or a telephone number
HoldsPersonalData(text) ==
    \/ "@" \in Range(text)
    \/ \E i \in 1..(Len(text) - 7) : \A j \in 0..7 : text[i + j] \in Digits

\* every text the model is shown or the memory keeps: the questions of the
\* invocations of this message and the turns of the session
TextsShown ==
    {calls[i].inputs.question : i \in 1..Len(calls)}
        \cup (IF session_id \in DOMAIN agent_sessions
              THEN {agent_sessions[session_id].history[i].content :
                        i \in 1..Len(agent_sessions[session_id].history)}
              ELSE {})

\* C17: in every query-mode dispatch the follow-up given to the second
\* invocation embeds the query and the output of the result processor in
\* use, and fetched data that holds an e-mail address or a telephone number
\* is in no prompt and in no turn of the conversation memory as it came.
C17_OnlyProcessedDataInPrompts ==
    /\ Len(calls) = 2 =>
           /\ processed_data = result_processor(process_fetch_data, data, query)
           /\ calls[2].inputs.question =
                  FollowUpHead \o query \o FollowUpMid \o processed_data
                      \o FollowUpTail
    /\ (fetch_outcome # <<>> /\ HoldsPersonalData(data)) =>
           \A text \in TextsShown : ~Contains(text, data)

\* a streamed second invocation was made and remembered after a fetch that
\* returned a record with an e-mail address and a telephone number
C17_Witness ==
    /\ pc = "done" /\ kind = "stream" /\ Len(calls) = 2
    /\ fetch_outcome = <<[ok |-> TRUE, text |-> OneRecord]>>
    /\ Len(agent_sessions[session_id].history) = 4
    /\ Contains(agent_sessions[session_id].history[3].content, processed_data)

LastCallFailed == calls # <<>> /\ calls[Len(calls)].status = "error"

\* C18: a failed invocation is the last invocation of its dispatch and no
\* fetch follows it; process_chat_message ends at once with the failure and
\* returns nothing, and a dispatch of either handler that has failed has
\* the failure as its last event and has delivered no result.
C18_FailureNotRetried ==
    /\ \A i \in 1..Len(calls) : calls[i].status = "error" => i = Len(calls)
    /\ LastCallFailed =>
           /\ Len(fetch_queries) = Len(calls) - 1
           /\ pc \in {"failed", "stream1", "stream2"}
           /\ kind = "invoke" => pc = "failed"
    /\ pc = "failed" =>
           /\ LastCallFailed
           /\ events[Len(events)] = "raise"
           /\ result = <<>>
           /\ \A i \in 1..Len(yielded) : yielded[i][1] # <<>>

\* the second invocation of a non-streaming dispatch failed after the first
\* was answered and the fetch was made
C18_Witness ==
    /\ pc = "failed" /\ kind = "invoke"
    /\ Len(calls) = 2 /\ calls[1].status = "ok"
    /\ Len(fetch_queries) = 1

\* the memory the message found: that of its session, or none
HistoryAtStart ==
    IF session_at_start = <<>> THEN <<>> ELSE session_at_start[1].history

\* C19: after a dispatch has failed, the conversation memory and the ledger
\* of its session are what they were when the message was received.
C19_FailureLeavesSessionUnmodified ==
    pc = "failed" =>
        /\ agent_sessions[session_id].history = HistoryAtStart
        /\ Ledger = ledger_at_start

\* the text of the fragments delivered to the caller so far, in order
RECURSIVE YieldedText(_)
YieldedText(ys) ==
    IF ys = <<>> THEN <<>> ELSE Head(ys)[1] \o YieldedText(Tail(ys))

FollowUpBuilt ==
    /\ \E i, j \in 1..Len(events) :
            i < j /\ events[i] = "fetch" /\ events[j] = "process"
    /\ processed_data = result_processor(process_fetch_data, data, query)
    /\ follow_up = format_follow_up(query, processed_data)

\* C20: in a streaming dispatch, when the fetch is about to be initiated
\* and ever after, every fragment of the first invocation has been
\* delivered to the caller (the delivered text begins with the whole first
\* reply, nothing of it is left in the model or in the queue); and once
\* anything beyond the first reply has been delivered, the fetch and the
\* result processing have both happened in that order, the follow-up is the
\* one built from the processed data, and it is the question of the second
\* invocation.
C20_StreamSequencing ==
    (kind = "stream" /\ calls # <<>>) =>
        /\ IsPrefix(YieldedText(yielded), calls[1].content)
               \/ IsPrefix(calls[1].content, YieldedText(yielded))
        /\ (pc \in {"fetch", "process"} \/ fetch_queries # <<>>) =>
               IsPrefix(calls[1].content, YieldedText(yielded))
        /\ pc \in {"fetch", "process"} =>
               /\ YieldedText(yielded) = calls[1].content
               /\ callback_handler.token_queue = <<>>
               /\ llm_pending = <<>>
        /\ Len(YieldedText(yielded)) > Len(calls[1].content) =>
               /\ FollowUpBuilt
               /\ Len(calls) = 2
               /\ calls[2].inputs.question = follow_up
               /\ pc \in {"stream2", "await2", "done", "failed"}

\* a streaming dispatch has delivered fragments of both invocations
C20_Witness ==
    /\ kind = "stream" /\ Len(calls) = 2 /\ pc = "stream2"
    /\ Len(yielded) > 4
    /\ Len(YieldedText(yielded)) > Len(calls[1].content)
    /\ callback_handler.token_queue # <<>>

\* chat.py:283-300: what one streamed invocation adds to the totals of its
\* dispatch, the usage the provider reported or else the estimate
StreamContribution(c) ==
    IF c.usage # <<>> THEN c.usage
    ELSE <<0, estimate_tokens(strip(c.content))>>

RECURSIVE SumContributions(_)
SumContributions(cs) ==
    IF cs = <<>> THEN <<0, 0>>
    ELSE plus(StreamContribution(Head(cs)), SumContributions(Tail(cs)))

RECURSIVE AllContent(_)
AllContent(cs) ==
    IF cs = <<>> THEN <<>> ELSE Head(cs).content \o AllContent(Tail(cs))

Returns == {i \in 1..Len(events) : events[i] = "return"}

Texts(ys) == [i \in 1..Len(ys) |-> ys[i][1]]

\* the fragments delivered to the caller: every element yielded but the
\* final one
DeliveredFragments ==
    IF pc = "done" THEN Texts(SubSeq(yielded, 1, Len(yielded) - 1))
    ELSE Texts(yielded)

IsToken(item) == item[1] = "token"

\* the fragments waiting in the queue of the handler in use
QueuedFragments ==
    LET items == SelectSeq(callback_handler.token_queue, IsToken)
    IN  [i \in 1..Len(items) |-> items[i][2]]

RECURSIVE Concat(_)
Concat(ss) == IF ss = <<>> THEN <<>> ELSE Head(ss) \o Concat(Tail(ss))

\* C22: in a streaming dispatch the fragments delivered to the caller,
\* followed by those still queued, are exactly the tokens the producers
\* passed to on_llm_new_token, invocation by invocation and in the order
\* they were passed; once the consumer has seen the end of an invocation
\* every one of its tokens has been delivered exactly once; and the text
\* that is trimmed and classified is the concatenation of the tokens of
\* that invocation.
C22_FragmentChannelFifo ==
    (kind = "stream" /\ emitted # <<>>) =>
        /\ DeliveredFragments \o QueuedFragments = Concat(emitted)
        /\ pc \in {"await1", "fetch", "process"} =>
               DeliveredFragments = emitted[1]
        /\ Len(emitted) = 2 => IsPrefix(emitted[1], DeliveredFragments)
        /\ pc \in {"await2", "done"} =>
               DeliveredFragments = Concat(emitted)
        /\ pc \in {"await1", "await2"} =>
               accumulated_response = Concat(emitted[Len(emitted)])
        /\ pc \in {"fetch", "process"} =>
               /\ response = strip(Concat(emitted[1]))
               /\ is_query_mode(response)
        /\ pc = "done" =>
               /\ response = strip(Concat(emitted[Len(emitted)]))
               /\ Len(emitted) = 1 => ~is_query_mode(response)

\* the consumer is part way through the second invocation: fragments of
\* both invocations have been delivered and more than one waits in the queue
C22_Witness ==
    /\ kind = "stream" /\ pc = "stream2" /\ Len(emitted) = 2
    /\ Len(DeliveredFragments) > Len(emitted[1])
    /\ Len(QueuedFragments) >= 2
    /\ QueuedFragments[1] # QueuedFragments[2]

ConsumerWaits == kind = "stream" /\ pc \in {"stream1", "stream2"}

ProducerTerminated == stream_task \in {"finished", "failed"}

\* C23: in a streaming dispatch, once the producer task of the invocation
\* in progress has terminated, normally or by failing, the consumer that
\* drains the queue stops waiting: the handler leaves the loop over
\* get_tokens, to go on towards its final element or to raise.
C23_ConsumerStops ==
    (ConsumerWaits /\ ProducerTerminated) ~> ~ConsumerWaits

Cancelled == pc = "cancelled"

\* C24: once the caller of a streaming dispatch has stopped consuming, the
\* producer task of the invocation in flight is not left running, passes
\* no further token to on_llm_new_token, and the session's memory and
\* ledger change no more.
C24_CancelStopsProducer ==
    /\ [](Cancelled => stream_task \notin {"created", "streaming", "ended"})
    /\ [][Cancelled =>
             /\ emitted' = emitted
             /\ agent_sessions' = agent_sessions]_vars

\* the caller stopped consuming before the first invocation was over
CancelledInFirst ==
    \E i \in 1..Len(events) :
        /\ events[i] = "cancel"
        /\ \A j \in 1..i : events[j] # "invoke1_end"

\* C25: when the caller of a streaming dispatch stops consuming while the
\* fragments of the first invocation are being delivered, the handler ends
\* there: no fetch is made and no second invocation is started for that
\* dispatch, whatever the first response turns out to be.
C25_NoFetchAfterCancel ==
    (kind = "stream" /\ CancelledInFirst) =>
        /\ Cancelled
        /\ fetch_queries = <<>>
        /\ fetch_outcome = <<>>
        /\ Len(calls) <= 1
        /\ \A i \in 1..Len(events) :
               events[i] \notin {"fetch", "process", "invoke2_start"}

\* the caller left after the first fragment of a response that begins with
\* the marker; the producer went on and finished that response
C25_Witness ==
    /\ kind = "stream" /\ CancelledInFirst
    /\ 0 < Len(yielded) /\ Len(yielded) < Len(emitted[1])
    /\ is_query_mode(strip(Concat(emitted[1])))
    /\ stream_task = "finished"

\* what the i-th streamed invocation adds to the totals when the estimate
\* is made from the character count of its fragments
FragmentContribution(i) ==
    IF calls[i].usage # <<>> THEN calls[i].usage
    ELSE <<0, Len(Concat(emitted[i])) \div CharsPerToken>>

RECURSIVE SumFragmentContributions(_)
SumFragmentContributions(n) ==
    IF n = 0 THEN <<0, 0>>
    ELSE plus(SumFragmentContributions(n - 1), FragmentContribution(n))

\* the invocations of the dispatch whose end the handler has seen
Accounted ==
    IF pc \in {"fetch", "process", "stream2", "await2"} THEN 1
    ELSE IF pc = "done" THEN Len(calls)
    ELSE 0

\* C26: in a streaming dispatch every invocation that ended without usage
\* from the provider adds 0 to the input tokens and floor(L / 4) to the
\* output tokens of the dispatch, L being the number of characters of the
\* fragments of that invocation; so an invocation whose fragments hold at
\* least four characters never adds zero.
C26_EstimateFromFragments ==
    (kind = "stream" /\ Accounted > 0) =>
        /\ <<request_input_tokens, request_output_tokens>>
               = SumFragmentContributions(Accounted)
        /\ (Accounted = 1 /\ calls[1].usage = <<>>
               /\ Len(Concat(emitted[1])) >= CharsPerToken) =>
               request_output_tokens > 0

\* the final element of the dispatch that differs from the present one
\* only in that the provider reported the usage (0, n), n being the
\* number of output tokens the present one estimated
TwinFinalElement ==
    LET n == estimate_tokens(response)
        usage == stream_token_usage(<<LLMResult("openai", <<0, n>>)>>, response)
    IN  final_element(usage.input_tokens, usage.output_tokens)

\* C27: a streaming dispatch of one invocation that had to estimate its
\* output tokens delivers a final element different from the one it
\* would deliver had the provider reported exactly that usage.
C27_EstimateDistinguishable ==
    (kind = "stream" /\ pc = "done" /\ Len(calls) = 1 /\ calls[1].usage = <<>>) =>
        yielded[Len(yielded)] # TwinFinalElement

\* C28: the memory of a session only grows: a session once stored stays
\* stored, and every step leaves what its memory held as the beginning of
\* what it holds next, so the memory at any moment is a prefix of the
\* memory at any later moment.
C28_MemoryAppendOnly ==
    [][\A sid \in DOMAIN agent_sessions :
           /\ sid \in DOMAIN agent_sessions'
           /\ IsPrefix(agent_sessions[sid].history,
                       agent_sessions'[sid].history)]_vars

\* the second message of a session has extended a memory that already
\* held the turns of a query-mode dispatch
C28_Witness ==
    /\ pc = "done" /\ dispatches = 2
    /\ Len(HistoryAtStart) = 4
    /\ Len(agent_sessions[session_id].history) > 4
    /\ IsPrefix(HistoryAtStart, agent_sessions[session_id].history)

Turn(role, content) == [role |-> role, content |-> content]

\* C29: the context replayed into the first invocation of a message is
\* the whole memory the message found, and that of the second invocation
\* is the same followed by the message and the first response; a completed
\* message leaves in the memory what it found followed by its own
\* exchanges, the message first and the reply last. So the invocations of
\* a later message see, in order, the text and the reply of every earlier
\* completed message of the session.
C29_ContextReplaysMemory ==
    /\ \A i \in 1..Len(calls) :
           calls[i].context =
               IF i = 1 THEN HistoryAtStart
               ELSE HistoryAtStart
                        \o <<Turn("human", question), Turn("ai", calls[1].content)>>
    /\ pc = "done" =>
           LET history == agent_sessions[session_id].history
               n == Len(HistoryAtStart)
           IN  /\ IsPrefix(HistoryAtStart, history)
               /\ Len(history) = n + 2 * Len(calls)
               /\ history[n + 1] = Turn("human", question)
               /\ history[Len(history)] = Turn("ai", calls[Len(calls)].content)

\* the second message of a session is in query mode, and its second
\* invocation sees the four turns of the first message, then the second
\* message and its marker response
C29_Witness ==
    /\ dispatches = 2 /\ Len(calls) = 2
    /\ Len(calls[2].context) = 6
    /\ calls[2].context[1] = Turn("human", Question1)
    /\ calls[2].context[4] = Turn("ai", DoneText)
    /\ calls[2].context[6] = Turn("ai", FetchB)

\* C30: a step of the dispatch of one session leaves every other session
\* of the table as it was: its model binding, its memory, its ledger and
\* its stored profile.
C30_SessionsIndependent ==
    [][\A sid \in DOMAIN agent_sessions :
           sid # session_id' =>
               /\ sid \in DOMAIN agent_sessions'
               /\ agent_sessions'[sid] = agent_sessions[sid]]_vars

\* a query-mode dispatch of s2, with its own profile, has completed next
\* to a session s1 that holds turns and tokens of its own
C30_Witness ==
    /\ pc = "done" /\ session_id = "s2" /\ Len(calls) = 2
    /\ DOMAIN agent_sessions = {"s1", "s2"}
    /\ agent_sessions["s1"].history # <<>>
    /\ agent_sessions["s1"].token_usage.input_tokens > 0
    /\ agent_sessions["s1"].profile # agent_sessions["s2"].profile
    /\ agent_sessions["s1"].runnable # agent_sessions["s2"].runnable
    /\ Len(agent_sessions["s2"].history) = 4

LookupFailed == profile_lookup \in {<<"not_found">>, <<"error">>}

\* C31: when the profile service reports not-found or any other error for
\* a session that does not exist yet, the message is dispatched all the
\* same, with the fallback profile: name equal to the agent id, empty
\* location, no listings. The session is created with it, every
\* invocation of the dispatch gets its inputs from it, and the dispatch
\* fails only if a model invocation fails.
C31_LookupFailureFallsBack ==
    LookupFailed =>
        /\ session_at_start = <<>>
        /\ profile = fallback_profile(session_id)
        /\ profile.agent_name = session_id
        /\ profile.location = "" /\ profile.listings = <<>>
        /\ agent_sessions[session_id].profile = profile
        /\ pc # "idle"
        /\ \A i \in 1..Len(calls) :
               /\ calls[i].inputs.agent_name = session_id
               /\ calls[i].inputs.location = ""
               /\ calls[i].inputs.listings = <<>>
        /\ pc = "failed" => LastCallFailed

\* a query-mode message whose profile lookup ended in an error has been
\* answered
C31_Witness ==
    /\ profile_lookup = <<"error">>
    /\ pc = "done" /\ Len(calls) = 2
    /\ calls[2].inputs.agent_name = "s1"
    /\ calls[2].status = "ok"

\* C32: a message for a session id that is not in the table creates the
\* session and is dispatched (it fails only if a model invocation fails);
\* and a session id once in the table stays there with the same model
\* binding, a memory that is only extended and counters that are not
\* lowered, so the set of session ids only grows.
C32_SessionsOnlyGrow ==
    /\ [](pc # "idle" =>
             /\ session_id \in DOMAIN agent_sessions
             /\ pc = "failed" => LastCallFailed)
    /\ [][\A sid \in DOMAIN agent_sessions :
             /\ sid \in DOMAIN agent_sessions'
             /\ agent_sessions'[sid].runnable = agent_sessions[sid].runnable
             /\ IsPrefix(agent_sessions[sid].history, agent_sessions'[sid].history)
             /\ agent_sessions'[sid].token_usage.input_tokens
                    >= agent_sessions[sid].token_usage.input_tokens]_vars

\* the second message was for an unknown id: its session was created next
\* to the first one, which kept its turns, and the message was answered
C32_Witness ==
    /\ pc = "done" /\ dispatches = 2 /\ session_at_start = <<>>
    /\ Cardinality(DOMAIN agent_sessions) = 2
    /\ \E sid \in DOMAIN agent_sessions :
           sid # session_id /\ agent_sessions[sid].history # <<>>

\* C33: usage metadata that is absent or malformed never fails a
\* process_chat_message dispatch: a dispatch that has its session fails
\* only if a model invocation fails, an invocation without usable metadata
\* counts (0, 0),
\* and the counters of the ledger rise by exactly what the dispatch
\* returns.
C33_BadUsageNeverFails ==
    (kind = "invoke" /\ pc # "idle" /\ session_id \in DOMAIN agent_sessions) =>
        /\ pc = "failed" => LastCallFailed
        /\ Counters(Ledger) = plus(Counters(ledger_at_start), SumUsage(calls))
        /\ pc = "done" => <<result[2], result[3]>> = SumUsage(calls)

\* C34: a first response in query mode does not reach the user:
\* process_chat_message returns the stripped response of the second
\* invocation, and process_chat_message_stream has delivered nothing when
\* it goes on to the fetch, and delivers only fragments of the second
\* invocation afterwards.
C34_MarkerResponseIntercepted ==
    /\ (kind = "invoke" /\ pc = "done" /\ fetch_queries # <<>>) =>
           /\ Len(calls) = 2
           /\ result[1] = strip(calls[2].content)
    /\ (kind = "stream" /\ pc \in {"fetch", "process"}) => yielded = <<>>
    /\ (kind = "stream" /\ pc = "done" /\ fetch_queries # <<>>) =>
           Concat(DeliveredFragments) = calls[2].content

\* the session the message in flight started from: the one it found, or
\* the one created for it
StartSession ==
    IF session_at_start = <<>>
    THEN [history |-> <<>>, token_usage |-> TokenUsage]
    ELSE [history |-> session_at_start[1].history,
          token_usage |-> session_at_start[1].token_usage]

\* what process_chat_message does with the responses, the usage and the
\* fetch outcome the streaming dispatch in flight was given
NonStreamingTwin ==
    process_chat_message(StartSession, profile, question,
                         [i \in 1..Len(calls) |-> calls[i].content],
                         [i \in 1..Len(calls) |-> calls[i].usage],
                         fetch_outcome, process_fetch_data)

\* the fragments of the last invocation that were delivered to the caller
LastFragments ==
    IF Len(calls) = 2
    THEN SubSeq(DeliveredFragments, Len(emitted[1]) + 1, Len(DeliveredFragments))
    ELSE DeliveredFragments

\* C35: a streaming dispatch that has completed has made the invocations
\* and the fetches process_chat_message makes from the same session state
\* with the same response texts, reported usage and fetch outcome, with
\* the same inputs, contexts and queries; it has left the same memory and
\* the same ledger; and the fragments of its last invocation, concatenated
\* and trimmed, are the text process_chat_message returns.
C35_StreamingRunsSameProtocol ==
    (kind = "stream" /\ pc = "done") =>
        LET twin == NonStreamingTwin
            session == agent_sessions[session_id]
        IN  /\ [i \in 1..Len(calls) |-> calls[i].inputs] = twin.inputs
            /\ [i \in 1..Len(calls) |-> calls[i].context] = twin.contexts
            /\ fetch_queries = twin.queries
            /\ session.history = twin.history
            /\ session.token_usage = twin.token_usage
            /\ strip(Concat(LastFragments)) = twin.response

\* a streaming dispatch in query mode has completed in a session that had
\* memory and a ledger, with usage reported for both invocations
C35_Witness ==
    /\ kind = "stream" /\ pc = "done"
    /\ Len(calls) = 2 /\ fetch_queries # <<>>
    /\ calls[1].usage # <<>> /\ calls[2].usage # <<>>
    /\ session_at_start # <<>>
    /\ session_at_start[1].history # <<>>
    /\ total_tokens(session_at_start[1].token_usage) > 0
    /\ LastFragments # <<>>

\* the turns a completed dispatch is to have added to the memory
TurnsOfDispatch ==
    IF fetch_queries = <<>>
    THEN << Turn("human", question), Turn("ai", calls[1].content) >>
    ELSE << Turn("human", question), Turn("ai", calls[1].content),
            Turn("human", format_follow_up(query, processed_data)),
            Turn("ai", calls[2].content) >>

\* C36: a completed dispatch has appended exactly 2 turns to the memory of
\* its session in analysis mode (the user message and the reply) and
\* exactly 4 in query mode (the user message, the marker reply, the
\* follow-up message, which contains the processed fetch data, and the
\* final reply); and every invocation of a dispatch is given all turns its
\* session held when the message arrived, so the marker replies and the
\* follow-ups of earlier dispatches are replayed.
C36_TurnsPerDispatch ==
    /\ pc = "done" =>
           /\ agent_sessions[session_id].history = HistoryAtStart \o TurnsOfDispatch
           /\ Len(TurnsOfDispatch) = IF is_query_mode(strip(calls[1].content))
                                     THEN 4 ELSE 2
           /\ fetch_queries # <<>> =>
                  Contains(TurnsOfDispatch[3].content, processed_data)
    /\ \A i \in 1..Len(calls) : IsPrefix(HistoryAtStart, calls[i].context)

\* a query-mode dispatch has completed whose first invocation was given
\* the four turns of an earlier query-mode dispatch
C36_Witness ==
    /\ pc = "done" /\ fetch_queries # <<>>
    /\ Len(HistoryAtStart) = 4
    /\ is_query_mode(strip(HistoryAtStart[2].content))
    /\ Contains(HistoryAtStart[3].content, mask_sensitive_data(OneRecord))
    /\ calls[1].context = HistoryAtStart
    /\ Len(agent_sessions[session_id].history) = 8

\* C37: through the endpoints the profile service is asked exactly when
\* the session id of the message is not in the session table; a message
\* for an existing session is dispatched with the stored profile; and the
\* profile of a session, a fallback profile included, is never changed
\* once the session exists.
C37_ProfileFixedAtCreation ==
    /\ [](pc # "idle" =>
             /\ (profile_lookup = <<>>) <=> (session_at_start # <<>>)
             /\ session_at_start # <<>> => profile = session_at_start[1].profile
             /\ agent_sessions[session_id].profile = profile)
    /\ [][\A sid \in DOMAIN agent_sessions :
             /\ sid \in DOMAIN agent_sessions'
             /\ agent_sessions'[sid].profile = agent_sessions[sid].profile]_vars

\* the session was created with the fallback profile; its second message
\* has been answered without a lookup and the fallback is still stored
C37_Witness ==
    /\ pc = "done" /\ dispatches = 2
    /\ session_at_start # <<>>
    /\ profile_lookup = <<>>
    /\ profile = fallback_profile(session_id)
    /\ agent_sessions[session_id].profile = fallback_profile(session_id)

\* the message in flight ended when the model factory raised
CreateFailed == pc = "failed" /\ calls = <<>> /\ events = <<"create_llm", "raise">>

\* C38: when create_llm raises while a session is being created the
\* dispatch fails without an invocation, having delivered nothing, and
\* the session table is what it was, without the session id; every message
\* for an id that is not in the table calls the factory (again); and when
\* the first invocation of the message that created a session fails, the
\* session is in the table with empty memory and zero ledger.
C38_FailedCreationLeavesNoSession ==
    /\ [](CreateFailed =>
             /\ session_id \notin DOMAIN agent_sessions
             /\ result = <<>> /\ yielded = <<>>)
    /\ [][dispatches' # dispatches =>
             /\ CreateFailed' => agent_sessions' = agent_sessions
             /\ session_id' \notin DOMAIN agent_sessions =>
                    create_llm_calls' = create_llm_calls + 1]_vars
    /\ []((pc = "failed" /\ session_at_start = <<>> /\ Len(calls) = 1
              /\ LastCallFailed) =>
             /\ session_id \in DOMAIN agent_sessions
             /\ agent_sessions[session_id].history = <<>>
             /\ agent_sessions[session_id].token_usage = TokenUsage)

\* the factory raised for the first message; the second message, for the
\* same id, called it again and created the session, and then its first
\* invocation failed
C38_Witness ==
    /\ dispatches = 2 /\ create_llm_calls = 2
    /\ pc = "failed" /\ Len(calls) = 1 /\ LastCallFailed
    /\ session_at_start = <<>>
    /\ DOMAIN agent_sessions = {session_id}
    /\ agent_sessions[session_id].history = <<>>

\* both streaming handlers in flight have come to their end
BothComplete == \A t \in StreamingPair : tasks[t].pc = "done"

\* the turns of the dispatch of t, from what it asked and was answered
TurnsOf(t) ==
    << Turn("human", tasks[t].question), Turn("ai", tasks[t].contents[1]) >>
        \o (IF Len(tasks[t].contents) = 2
            THEN << Turn("human", tasks[t].follow_up),
                    Turn("ai", tasks[t].contents[2]) >>
            ELSE <<>>)

\* h holds the elements of a and those of b, each exactly once and each
\* sequence in its own order
RECURSIVE IsMerge(_, _, _)
IsMerge(h, a, b) ==
    IF h = <<>> THEN a = <<>> /\ b = <<>>
    ELSE \/ a # <<>> /\ Head(a) = Head(h) /\ IsMerge(Tail(h), Tail(a), b)
         \/ b # <<>> /\ Head(b) = Head(h) /\ IsMerge(Tail(h), a, Tail(b))

\* C39: when two streaming dispatches of one session have been in flight
\* together and both have completed, the counters of the session's ledger
\* are the sums of the usage the provider reported for all their
\* invocations, and the session's memory holds the turns of both
\* dispatches, every turn exactly once, those of each dispatch in order.
C39_NoLostUpdate ==
    BothComplete =>
        LET session == agent_sessions[ConcurrentWorld.session]
        IN  /\ Counters(session.token_usage) = provider_usage[ConcurrentWorld.session]
            /\ IsMerge(session.history, TurnsOf(1), TurnsOf(2))
            /\ Len(session.history) = Len(TurnsOf(1)) + Len(TurnsOf(2))

\* both dispatches ran in query mode with reported usage; their turns are
\* interleaved in the memory, and the second invocation of one of them was
\* given turns of the other
C39_Witness ==
    /\ BothComplete
    /\ Len(tasks[1].contents) = 2 /\ Len(tasks[2].contents) = 2
    /\ provider_usage[ConcurrentWorld.session] = <<4, 8>>
    /\ agent_sessions[ConcurrentWorld.session].history
           \notin {TurnsOf(1) \o TurnsOf(2), TurnsOf(2) \o TurnsOf(1)}
    /\ Len(tasks[1].contexts[2]) = 4

\* the events /chat/stream has sent for the message in flight
SseEvents == generate_stream(yielded, pc)

IsErrorEvent(e) == e[1] = "error"

IsUsageEvent(e) == e[1] = "tokenUsage"

\* C40: a failed model invocation reaches the user as an error response
\* and in no other way: /chat answers with status 500 and no message, and
\* /chat/stream sends exactly one error event, which is its last event,
\* with no token-usage event, after the fragments it had already sent;
\* and once an invocation of a streaming dispatch has failed the error
\* event is sent.
C40_FailureSurfacesAsError ==
    /\ []((kind = "invoke" /\ LastCallFailed) =>
             /\ pc = "failed"
             /\ chat_endpoint(pc, result) = [status |-> 500])
    /\ []((kind = "stream" /\ pc = "failed") =>
             /\ LastCallFailed
             /\ Len(SelectSeq(SseEvents, IsErrorEvent)) = 1
             /\ IsErrorEvent(SseEvents[Len(SseEvents)])
             /\ SelectSeq(SseEvents, IsUsageEvent) = <<>>
             /\ SubSeq(SseEvents, 1, Len(SseEvents) - 1) = data_events(yielded))
    /\ []((kind = "stream" /\ pc \notin {"idle", "failed"}) =>
             SelectSeq(SseEvents, IsErrorEvent) = <<>>)
    /\ ((kind = "stream" /\ LastCallFailed) ~> (pc = "failed"))

\* what C40 says of the events that have been sent, without the promise
\* that the error event is sent
SentEventsWellFormed ==
    /\ (kind = "invoke" /\ LastCallFailed) =>
           /\ pc = "failed"
           /\ chat_endpoint(pc, result) = [status |-> 500]
    /\ (kind = "stream" /\ pc = "failed") =>
           /\ LastCallFailed
           /\ Len(SelectSeq(SseEvents, IsErrorEvent)) = 1
           /\ IsErrorEvent(SseEvents[Len(SseEvents)])
           /\ SelectSeq(SseEvents, IsUsageEvent) = <<>>

====
